---- MODULE Spec2Model ----
(***************************************************************************)
(* A model of the binary heap (package heap), of the priority queue built  *)
(* on it (package priorityqueue), and of the queue (package queue), the     *)
(* stack (package stack), the two singly linked lists (packages            *)
(* singlylinkedlist and singlylinkedlistany), the bitmap (package bitmap), *)
(* the set (package set) and the dictionary (package dictionary).          *)
(*                                                                         *)
(* A Heap[T] is the record [elements, compare]: elements is the backing    *)
(* slice (a sequence; Go index i is TLA+ index i+1) and compare is the     *)
(* comparator bound at construction.  A comparator is a function value of  *)
(* the program; here it is the record [fn, swap] naming the function and   *)
(* saying whether NewMaxHeap wrapped it to swap its operands, and          *)
(* Call(f, a, b) is the call f(a, b).                                      *)
(* Every action is one whole call of the API.                              *)
(***************************************************************************)
EXTENDS Integers, Sequences, FiniteSets, TLC

VARIABLES
    h,        \* the heap under test: [elements, compare]
    ctor,     \* which constructor built h
    inserts,  \* number of Insert calls made on h
    removes,  \* number of Remove calls on h that returned a nil error
    ret,      \* what the last call on h returned: [op, val, err]
    phase,    \* "fill": only Inserts since h was last empty; "drain": a fill
              \* followed by Removes only; "mixed": anything else
    ins,      \* the elements inserted in the current fill, in call order
    out,      \* the elements returned by the Removes since the last Insert
    peeks,    \* Peek calls made in a row just now: 0, 1, or 2 for two or more
    fed,      \* how many elements of insertionSequence the test has inserted
    pq,       \* the priority queue under test: [heap |-> Heap]
    pqCtor,   \* which constructor built pq
    pqRet,    \* what the last call on pq returned: [op, val, err]
    pqOut,    \* the values returned by the Dequeues since the last Enqueue
              \* or Clear
    pqCleared,\* how many elements the last Clear discarded (0: none yet)
    pqScript, \* the test whose Enqueue calls SpecPQScript replays
    pqFed,    \* how many of them it has made
    bh,       \* a second heap, without call history: the one SpecBad builds
              \* with an arbitrary comparator and SpecAlias hands out
    bhRet,    \* the name of the last call on bh
    touched,  \* the element accesses of the last call on bh: [idx, len]
    fifo,     \* the queue under test: [data]
    qRet,     \* what the last call on q returned: [op, val, err]
    qEnq,     \* the elements enqueued since the last Clear, in call order
    qDeq,     \* the elements the Dequeues returned since the last Clear
    st,       \* the stack under test: [data]
    stRet,    \* what the last call on st returned: [op, val, err]
    pushes,   \* number of Push calls made on st
    live,     \* the pushes not yet popped or cleared: [stamp, value], stamp
              \* being the number of the Push call
    gl,       \* the list of package singlylinkedlist: [head, tail, size, mem]
    al,       \* the list of package singlylinkedlistany, given the same calls
    lRet,     \* the last call on the lists, its arguments, the Size before
              \* it and the errors it returned:
              \* [op, index, data, before, gErr, aErr]
    bm,       \* the bitmap under test: [bits]
    bmRet,    \* what the last call on bm returned: [op, val, err]
    sa,       \* a *Set: Nil or [elements]
    sb,       \* another *Set: Nil or [elements]
    setRet,   \* what the last call on sa or sb returned: [op, set, val, err]
    dict,     \* a *Dictionary: Nil or [dict]
    dictRet   \* what the last call on dict returned: [op, val, ok, err, panic]

heapVars == <<h, ctor, inserts, removes, ret, phase, ins, out, peeks, fed>>

pqVars == <<pq, pqCtor, pqRet, pqOut, pqCleared, pqScript, pqFed>>

badVars == <<bh, bhRet, touched>>

fifoVars == <<fifo, qRet, qEnq, qDeq>>

stackVars == <<st, stRet, pushes, live>>

listVars == <<gl, al, lRet>>

bitmapVars == <<bm, bmRet>>

setVars == <<sa, sb, setRet>>

dictVars == <<dict, dictRet>>

\* the structures of the packages settled after the stack
laterVars == <<listVars, bitmapVars, setVars, dictVars>>

vars == <<heapVars, pqVars, badVars, fifoVars, stackVars, laterVars>>

\* what a call on one structure leaves alone
exceptHeap == <<pqVars, badVars, fifoVars, stackVars, laterVars>>

exceptPQ == <<heapVars, badVars, fifoVars, stackVars, laterVars>>

exceptBad == <<heapVars, pqVars, fifoVars, stackVars, laterVars>>

exceptFifo == <<heapVars, pqVars, badVars, stackVars, laterVars>>

exceptStack == <<heapVars, pqVars, badVars, fifoVars, laterVars>>

earlierVars == <<heapVars, pqVars, badVars, fifoVars, stackVars>>

exceptList == <<earlierVars, bitmapVars, setVars, dictVars>>

exceptBitmap == <<earlierVars, listVars, setVars, dictVars>>

exceptSet == <<earlierVars, listVars, bitmapVars, dictVars>>

exceptDict == <<earlierVars, listVars, bitmapVars, setVars>>

(***************************************************************************)
(* Bounds of the model.                                                    *)
(***************************************************************************)
\* heap elements of the general specification are 1..MaxVal
MaxVal == 3

\* the general specification inserts only while the heap is shorter
MaxSize == 4

\* the general specification makes at most this many Insert calls
MaxOps == 5

\* the priority queue is filled only while it is shorter
MaxQueue == 3

\* width of the machine integer the priorities are computed in; the
\* priorities of the tests (1, 2, 5, 10) and their differences fit
IntBits == 5

\* the heap with an arbitrary comparator is filled only while it is shorter
MaxBadSize == 5

\* at most this many Enqueue calls are made on the queue between two Clears
MaxEnqueues == 4

\* at most this many Push calls are made on the stack
MaxPushes == 5

\* the lists are filled only while they are shorter
MaxList == 3

\* the largest heap of elements with equal keys
MaxTies == 5

(***************************************************************************)
(* Values.                                                                 *)
(***************************************************************************)
Vals == 1 .. MaxVal

\* the zero value of T returned with an error (var element T)
Zero == 0

\* error values: nil, and errors.New("empty heap")
NoError == "nil"

ErrEmptyHeap == "empty heap"

Range(s) == {s[i] : i \in DOMAIN s}

(***************************************************************************)
(* Machine integers: Go's int, scaled down to IntBits bits; arithmetic     *)
(* wraps around.                                                           *)
(***************************************************************************)
MinInt == -(2 ^ (IntBits - 1))

MaxInt == 2 ^ (IntBits - 1) - 1

WrapInt(x) == ((x - MinInt) % (2 ^ IntBits)) + MinInt

(***************************************************************************)
(* Comparators.                                                            *)
(***************************************************************************)
\* the comparators of the heap tests; a Person is modelled by its age
intComparator(a, b) == IF a < b THEN -1 ELSE IF a > b THEN 1 ELSE 0

peopleFromOldestToYoungest(a, b) == IF a < b THEN 1 ELSE IF a > b THEN -1 ELSE 0

\* the closure compare of NewMinPriorityQueue
minPriorityCompare(a, b) == WrapInt(a.priority - b.priority)

\* the closure compare of NewMaxPriorityQueue
maxPriorityCompare(a, b) == WrapInt(b.priority - a.priority)

\* the function value naming one of the functions above
Func(name) == [fn |-> name, swap |-> FALSE]

\* the call f(a, b) of a function value
Call(f, a, b) ==
    LET x == IF f.swap THEN b ELSE a
        y == IF f.swap THEN a ELSE b
    IN  CASE f.fn = "intComparator" -> intComparator(x, y)
          [] f.fn = "peopleFromOldestToYoungest" -> peopleFromOldestToYoungest(x, y)
          [] f.fn = "minPriorityCompare" -> minPriorityCompare(x, y)
          [] f.fn = "maxPriorityCompare" -> maxPriorityCompare(x, y)
          [] f.fn = "table" -> f.table[<<x, y>>]

(***************************************************************************)
(* package heap                                                            *)
(***************************************************************************)
NewGenericHeap(compare) == [compare |-> compare, elements |-> <<>>]

NewMinHeap(compare) == [compare |-> compare, elements |-> <<>>]

NewMaxHeapNoSwap(compare) == [compare |-> compare, elements |-> <<>>]

\* comp is the closure func(a, b) { return compare(b, a) }
NewMaxHeap(compare) ==
    LET comp == [compare EXCEPT !.swap = ~@]
    IN  [compare |-> comp, elements |-> <<>>]

Size(hp) == Len(hp.elements)

Elements(hp) == hp.elements

Comparator(hp) == hp.compare

\* the heap after e := h.Elements(); e[i] = value.  Elements returns the
\* slice h.elements itself, so e and h.elements share their backing array
\* and the write lands in the heap.
WriteThroughElements(hp, i, value) ==
    [hp EXCEPT !.elements = [Elements(hp) EXCEPT ![i + 1] = value]]

\* h.elements[i] for a Go index i
At(hp, i) == hp.elements[i + 1]

\* a swap that writes only h.elements[i]
SwapOneWay(hp, i, j) ==
    [hp EXCEPT !.elements = [@ EXCEPT ![i + 1] = hp.elements[j + 1]]]

\* h.elements[i], h.elements[j] = h.elements[j], h.elements[i]
Swap(hp, i, j) ==
    [hp EXCEPT !.elements = [@ EXCEPT ![i + 1] = hp.elements[j + 1],
                                      ![j + 1] = hp.elements[i + 1]]]

RECURSIVE upHeapWrongParent(_, _)
upHeapWrongParent(hp, i) ==
    IF i > 0
    THEN LET parent == i \div 2
         IN  IF Call(hp.compare, At(hp, i), At(hp, parent)) > 0
             THEN hp
             ELSE upHeapWrongParent(Swap(hp, i, parent), parent)
    ELSE hp

upHeapOneStep(hp, i) ==
    IF i > 0
    THEN LET parent == (i - 1) \div 2
         IN  IF Call(hp.compare, At(hp, i), At(hp, parent)) > 0
             THEN hp
             ELSE Swap(hp, i, parent)
    ELSE hp

\* an upHeap that stops at a parent that compares equal
RECURSIVE upHeapStrict(_, _)
upHeapStrict(hp, i) ==
    IF i > 0
    THEN LET parent == (i - 1) \div 2
         IN  IF Call(hp.compare, At(hp, i), At(hp, parent)) >= 0
             THEN hp
             ELSE upHeapStrict(Swap(hp, i, parent), parent)
    ELSE hp

RECURSIVE upHeap(_, _)
upHeap(hp, i) ==
    IF i > 0
    THEN LET parent == (i - 1) \div 2
         IN  IF Call(hp.compare, At(hp, i), At(hp, parent)) > 0
             THEN hp
             ELSE upHeap(Swap(hp, i, parent), parent)
    ELSE hp

RECURSIVE downHeapLeftOnly(_, _)
downHeapLeftOnly(hp, i) ==
    LET left == 2 * i + 1
        smallest ==
            IF left < Size(hp) /\ Call(hp.compare, At(hp, left), At(hp, i)) < 0
            THEN left ELSE i
    IN  IF smallest = i
        THEN hp
        ELSE downHeapLeftOnly(Swap(hp, i, smallest), smallest)

\* a downHeap that looks at the right child first
RECURSIVE downHeapRightFirst(_, _)
downHeapRightFirst(hp, i) ==
    LET left == 2 * i + 1
        right == 2 * i + 2
        afterRight ==
            IF right < Size(hp) /\ Call(hp.compare, At(hp, right), At(hp, i)) < 0
            THEN right ELSE i
        smallest ==
            IF left < Size(hp)
               /\ Call(hp.compare, At(hp, left), At(hp, afterRight)) < 0
            THEN left ELSE afterRight
    IN  IF smallest = i
        THEN hp
        ELSE downHeapRightFirst(Swap(hp, i, smallest), smallest)

RECURSIVE downHeap(_, _)
downHeap(hp, i) ==
    LET left == 2 * i + 1
        right == 2 * i + 2
        afterLeft ==
            IF left < Size(hp) /\ Call(hp.compare, At(hp, left), At(hp, i)) < 0
            THEN left ELSE i
        smallest ==
            IF right < Size(hp)
               /\ Call(hp.compare, At(hp, right), At(hp, afterLeft)) < 0
            THEN right ELSE afterLeft
    IN  IF smallest = i
        THEN hp
        ELSE downHeap(Swap(hp, i, smallest), smallest)

\* the heap after h.Insert(element)
Insert(hp, element) ==
    LET grown == [hp EXCEPT !.elements = Append(@, element)]
    IN  upHeap(grown, Len(grown.elements) - 1)

RemoveKeepsLength(hp) ==
    IF Size(hp) = 0
    THEN [heap |-> hp, element |-> Zero, err |-> ErrEmptyHeap]
    ELSE LET moved == [hp EXCEPT !.elements[1] = hp.elements[Size(hp)]]
         IN  [heap |-> downHeap(moved, 0), element |-> hp.elements[1],
              err |-> NoError]

\* a Remove that returns the element it moves to the root
RemoveReturnsLast(hp) ==
    IF Size(hp) = 0
    THEN [heap |-> hp, element |-> Zero, err |-> ErrEmptyHeap]
    ELSE LET moved == [hp EXCEPT !.elements[1] = hp.elements[Size(hp)]]
             cut == [moved EXCEPT !.elements = SubSeq(@, 1, Size(hp) - 1)]
         IN  [heap |-> downHeap(cut, 0), element |-> hp.elements[Size(hp)],
              err |-> NoError]

\* h.Remove(): the heap afterwards, the element and the error returned
Remove(hp) ==
    IF Size(hp) = 0
    THEN [heap |-> hp, element |-> Zero, err |-> ErrEmptyHeap]
    ELSE LET moved == [hp EXCEPT !.elements[1] = hp.elements[Size(hp)]]
             cut == [moved EXCEPT !.elements = SubSeq(@, 1, Size(hp) - 1)]
         IN  [heap |-> downHeap(cut, 0), element |-> hp.elements[1],
              err |-> NoError]

PeekNoCheck(hp) ==
    IF Size(hp) = 0
    THEN [element |-> Zero, err |-> NoError]
    ELSE [element |-> hp.elements[1], err |-> NoError]

PeekLast(hp) ==
    IF Size(hp) = 0
    THEN [element |-> Zero, err |-> ErrEmptyHeap]
    ELSE [element |-> hp.elements[Size(hp)], err |-> NoError]

\* h.Peek(): the element and the error returned
Peek(hp) ==
    IF Size(hp) = 0
    THEN [element |-> Zero, err |-> ErrEmptyHeap]
    ELSE [element |-> hp.elements[1], err |-> NoError]

(***************************************************************************)
(* The element accesses of package heap: every h.elements[i] a call        *)
(* evaluates, read or written, with the length of h.elements at that       *)
(* moment.  A run stops at an access out of range (the runtime panics).    *)
(***************************************************************************)
Access(hp, i) == [idx |-> i, len |-> Size(hp)]

InRange(a) == 0 <= a.idx /\ a.idx < a.len

\* upHeap(i): h.elements[i] and h.elements[parent] are read by the call of
\* compare and written by the swap
RECURSIVE upHeapAccesses(_, _)
upHeapAccesses(hp, i) ==
    IF i > 0
    THEN LET parent == (i - 1) \div 2
             here == {Access(hp, i), Access(hp, parent)}
         IN  IF \E a \in here : ~InRange(a)
             THEN here
             ELSE IF Call(hp.compare, At(hp, i), At(hp, parent)) > 0
                  THEN here
                  ELSE here \cup upHeapAccesses(Swap(hp, i, parent), parent)
    ELSE {}

RECURSIVE downHeapAccessesNoRightCheck(_, _)
downHeapAccessesNoRightCheck(hp, i) ==
    LET left == 2 * i + 1
        right == 2 * i + 2
        readsLeft ==
            IF left < Size(hp) THEN {Access(hp, left), Access(hp, i)} ELSE {}
        afterLeft ==
            IF left < Size(hp) /\ Call(hp.compare, At(hp, left), At(hp, i)) < 0
            THEN left ELSE i
        readsRight == {Access(hp, right), Access(hp, afterLeft)}
    IN  IF \E a \in readsRight : ~InRange(a)
        THEN readsLeft \cup readsRight
        ELSE LET smallest ==
                     IF Call(hp.compare, At(hp, right), At(hp, afterLeft)) < 0
                     THEN right ELSE afterLeft
             IN  IF smallest = i
                 THEN readsLeft \cup readsRight
                 ELSE readsLeft \cup readsRight
                      \cup {Access(hp, i), Access(hp, smallest)}
                      \cup downHeapAccessesNoRightCheck(Swap(hp, i, smallest),
                                                        smallest)

\* downHeap(i): the two guarded calls of compare read h.elements[left],
\* h.elements[right] and h.elements[smallest]; the swap writes h.elements[i]
\* and h.elements[smallest]
RECURSIVE downHeapAccesses(_, _)
downHeapAccesses(hp, i) ==
    LET left == 2 * i + 1
        right == 2 * i + 2
        readsLeft ==
            IF left < Size(hp) THEN {Access(hp, left), Access(hp, i)} ELSE {}
        afterLeft ==
            IF left < Size(hp) /\ Call(hp.compare, At(hp, left), At(hp, i)) < 0
            THEN left ELSE i
        readsRight ==
            IF right < Size(hp)
            THEN {Access(hp, right), Access(hp, afterLeft)} ELSE {}
        smallest ==
            IF right < Size(hp)
               /\ Call(hp.compare, At(hp, right), At(hp, afterLeft)) < 0
            THEN right ELSE afterLeft
    IN  IF smallest = i
        THEN readsLeft \cup readsRight
        ELSE readsLeft \cup readsRight
             \cup {Access(hp, i), Access(hp, smallest)}
             \cup downHeapAccesses(Swap(hp, i, smallest), smallest)

\* Insert: append does not index; upHeap starts at the last index
InsertAccesses(hp, element) ==
    LET grown == [hp EXCEPT !.elements = Append(@, element)]
    IN  upHeapAccesses(grown, Len(grown.elements) - 1)

\* Remove: h.elements[0] and h.elements[h.Size()-1] before the cut, then
\* downHeap(0) on the shortened slice
RemoveAccesses(hp) ==
    IF Size(hp) = 0
    THEN {}
    ELSE LET moved == [hp EXCEPT !.elements[1] = hp.elements[Size(hp)]]
             cut == [moved EXCEPT !.elements = SubSeq(@, 1, Size(hp) - 1)]
         IN  {Access(hp, 0), Access(hp, Size(hp) - 1)} \cup downHeapAccesses(cut, 0)

PeekAccesses(hp) == IF Size(hp) = 0 THEN {} ELSE {Access(hp, 0)}

\* an upHeap that steps to the index before instead of the parent
RECURSIVE upHeapIterationsLinear(_, _)
upHeapIterationsLinear(hp, i) ==
    IF i > 0
    THEN LET parent == i - 1
         IN  IF Call(hp.compare, At(hp, i), At(hp, parent)) > 0
             THEN <<i>>
             ELSE <<i>> \o upHeapIterationsLinear(Swap(hp, i, parent), parent)
    ELSE <<>>

\* upHeap(i): the value of i in each iteration of the loop, in order
RECURSIVE upHeapIterations(_, _)
upHeapIterations(hp, i) ==
    IF i > 0
    THEN LET parent == (i - 1) \div 2
         IN  IF Call(hp.compare, At(hp, i), At(hp, parent)) > 0
             THEN <<i>>
             ELSE <<i>> \o upHeapIterations(Swap(hp, i, parent), parent)
    ELSE <<>>

\* downHeap(i): the value of i in each iteration of the loop, in order
RECURSIVE downHeapIterations(_, _)
downHeapIterations(hp, i) ==
    LET left == 2 * i + 1
        right == 2 * i + 2
        afterLeft ==
            IF left < Size(hp) /\ Call(hp.compare, At(hp, left), At(hp, i)) < 0
            THEN left ELSE i
        smallest ==
            IF right < Size(hp)
               /\ Call(hp.compare, At(hp, right), At(hp, afterLeft)) < 0
            THEN right ELSE afterLeft
    IN  IF smallest = i
        THEN <<i>>
        ELSE <<i>> \o downHeapIterations(Swap(hp, i, smallest), smallest)

\* Insert: the iterations of upHeap, and the Size() it runs with
InsertIterations(hp, element) ==
    LET grown == [hp EXCEPT !.elements = Append(@, element)]
    IN  [indexes |-> upHeapIterations(grown, Len(grown.elements) - 1),
         size |-> Size(grown)]

\* Remove: the iterations of downHeap, and the Size() it runs with; Remove
\* on an empty heap returns before it
RemoveIterations(hp) ==
    IF Size(hp) = 0
    THEN [indexes |-> <<>>, size |-> 0]
    ELSE LET moved == [hp EXCEPT !.elements[1] = hp.elements[Size(hp)]]
             cut == [moved EXCEPT !.elements = SubSeq(@, 1, Size(hp) - 1)]
         IN  [indexes |-> downHeapIterations(cut, 0), size |-> Size(cut)]

(***************************************************************************)
(* package priorityqueue                                                   *)
(***************************************************************************)
\* the priorities the callers pass, the extremes of int included
Priorities == {MinInt, -1, 0, 1, MaxInt}

PQValues == {"a", "b"}

\* the zero value of T returned with an error (var zero T), T = string
ZeroT == ""

\* prioritized[T]{value: value, priority: priority}
prioritized(value, priority) == [value |-> value, priority |-> priority]

NewMinPriorityQueueMaxFirst ==
    [heap |-> NewGenericHeap(Func("maxPriorityCompare"))]

NewMinPriorityQueue == [heap |-> NewGenericHeap(Func("minPriorityCompare"))]

NewMaxPriorityQueue == [heap |-> NewGenericHeap(Func("maxPriorityCompare"))]

PQEnqueue(q, value, priority) ==
    [q EXCEPT !.heap = Insert(@, prioritized(value, priority))]

PQDequeueOwnError(q) ==
    LET r == Remove(q.heap)
    IN  IF r.err # NoError
        THEN [queue |-> [q EXCEPT !.heap = r.heap], value |-> ZeroT,
              err |-> "queue empty"]
        ELSE [queue |-> [q EXCEPT !.heap = r.heap], value |-> r.element.value,
              err |-> NoError]

\* pq.Dequeue(): the queue afterwards, the value and the error returned
PQDequeue(q) ==
    LET r == Remove(q.heap)
    IN  IF r.err # NoError
        THEN [queue |-> [q EXCEPT !.heap = r.heap], value |-> ZeroT, err |-> r.err]
        ELSE [queue |-> [q EXCEPT !.heap = r.heap], value |-> r.element.value,
              err |-> NoError]

PQPeekLast(q) ==
    IF Size(q.heap) = 0
    THEN [value |-> ZeroT, err |-> ErrEmptyHeap]
    ELSE [value |-> q.heap.elements[Size(q.heap)].value, err |-> NoError]

\* pq.Peek(): the value and the error returned
PQPeek(q) ==
    LET r == Peek(q.heap)
    IN  IF r.err # NoError
        THEN [value |-> ZeroT, err |-> r.err]
        ELSE [value |-> r.element.value, err |-> NoError]

PQSize(q) == Size(q.heap)

PQIsEmpty(q) == PQSize(q) = 0

PQClearMinFirst(q) ==
    [q EXCEPT !.heap = NewGenericHeap(Func("minPriorityCompare"))]

PQClear(q) == [q EXCEPT !.heap = NewGenericHeap(Comparator(q.heap))]

(***************************************************************************)
(* package queue.  T = int; a nil slice and an empty slice are both <<>>.  *)
(***************************************************************************)
ErrEmptyQueue == "empty queue"

NewQueue == [data |-> <<>>]

QEnqueue(qu, value) == [qu EXCEPT !.data = Append(@, value)]

QSize(qu) == Len(qu.data)

QIsEmpty(qu) == Len(qu.data) = 0

QDequeueLast(qu) ==
    IF QIsEmpty(qu)
    THEN [queue |-> qu, value |-> Zero, err |-> ErrEmptyQueue]
    ELSE [queue |-> [qu EXCEPT !.data = SubSeq(@, 1, Len(@) - 1)],
          value |-> qu.data[Len(qu.data)], err |-> NoError]

\* q.Dequeue(): the queue afterwards, the value and the error returned
QDequeue(qu) ==
    IF QIsEmpty(qu)
    THEN [queue |-> qu, value |-> Zero, err |-> ErrEmptyQueue]
    ELSE [queue |-> [qu EXCEPT !.data = SubSeq(@, 2, Len(@))],
          value |-> qu.data[1], err |-> NoError]

QFrontNoError(qu) ==
    IF QIsEmpty(qu)
    THEN [value |-> Zero, err |-> NoError]
    ELSE [value |-> qu.data[1], err |-> NoError]

\* q.Front(): the value and the error returned
QFront(qu) ==
    IF QIsEmpty(qu)
    THEN [value |-> Zero, err |-> ErrEmptyQueue]
    ELSE [value |-> qu.data[1], err |-> NoError]

QClear(qu) == [qu EXCEPT !.data = <<>>]

(***************************************************************************)
(* package stack.  T = int.                                                *)
(***************************************************************************)
ErrStackEmpty == "stack empty"

NewStack == [data |-> <<>>]

Push(s, value) == [s EXCEPT !.data = Append(@, value)]

StackSize(s) == Len(s.data)

StackIsEmpty(s) == Len(s.data) = 0

PopFirst(s) ==
    IF StackIsEmpty(s)
    THEN [stack |-> s, value |-> Zero, err |-> ErrStackEmpty]
    ELSE [stack |-> [s EXCEPT !.data = SubSeq(@, 2, Len(@))],
          value |-> s.data[1], err |-> NoError]

\* s.Pop(): the stack afterwards, the value and the error returned
Pop(s) ==
    IF StackIsEmpty(s)
    THEN [stack |-> s, value |-> Zero, err |-> ErrStackEmpty]
    ELSE LET index == Len(s.data) - 1
         IN  [stack |-> [s EXCEPT !.data = SubSeq(@, 1, index)],
              value |-> s.data[index + 1], err |-> NoError]

TopNoError(s) ==
    IF StackIsEmpty(s)
    THEN [value |-> Zero, err |-> NoError]
    ELSE [value |-> s.data[Len(s.data)], err |-> NoError]

\* s.Top(): the value and the error returned
Top(s) ==
    IF StackIsEmpty(s)
    THEN [value |-> Zero, err |-> ErrStackEmpty]
    ELSE [value |-> s.data[Len(s.data)], err |-> NoError]

StackClear(s) == [s EXCEPT !.data = <<>>]

(***************************************************************************)
(* packages singlylinkedlist and singlylinkedlistany.  A list is its three *)
(* fields and the nodes they point into: mem[n] is the node at address n,  *)
(* Nil is the nil pointer.  The two packages have the same code except in  *)
(* RemoveFirst (l.head for l.Head()), InsertAt and Reverse.                *)
(***************************************************************************)
Nil == 0

ListVals == {1, 2}

\* the addresses of nodes: one more than the lists ever hold
NodeIds == 1 .. MaxList + 1

FreeCell == [data |-> 0, next |-> Nil, used |-> FALSE]

NewSinglyLinkedList ==
    [head |-> Nil, tail |-> Nil, size |-> 0, mem |-> [n \in NodeIds |-> FreeCell]]

ListSize(l) == l.size

ListIsEmpty(l) == ListSize(l) = 0

\* the address NewSinglyLinkedNode returns: the lowest free one
NewSinglyLinkedNode(l) ==
    CHOOSE n \in NodeIds :
        /\ ~l.mem[n].used
        /\ \A m \in NodeIds : m < n => l.mem[m].used

\* the memory after NewSinglyLinkedNode(data) returned the address n
WithNode(l, n, data) ==
    [l EXCEPT !.mem[n] = [data |-> data, next |-> Nil, used |-> TRUE]]

ListClear(l) == [l EXCEPT !.head = Nil, !.tail = Nil, !.size = 0]

Prepend(l, data) ==
    LET newNode == NewSinglyLinkedNode(l)
        made == WithNode(l, newNode, data)
        linked == IF ListIsEmpty(l)
                  THEN [made EXCEPT !.tail = newNode]
                  ELSE [made EXCEPT !.mem[newNode].next = l.head]
    IN  [linked EXCEPT !.head = newNode, !.size = @ + 1]

ListAppend(l, data) ==
    LET newNode == NewSinglyLinkedNode(l)
        made == WithNode(l, newNode, data)
        linked == IF ListIsEmpty(l)
                  THEN [made EXCEPT !.head = newNode]
                  ELSE [made EXCEPT !.mem[l.tail].next = newNode]
    IN  [linked EXCEPT !.tail = newNode, !.size = @ + 1]

\* a RemoveFirst that leaves the tail alone
RemoveFirstKeepsTail(l) ==
    IF ListIsEmpty(l)
    THEN l
    ELSE [l EXCEPT !.head = l.mem[l.head].next, !.size = @ - 1]

RemoveFirst(l) ==
    IF ListIsEmpty(l)
    THEN l
    ELSE LET next == l.mem[l.head].next
         IN  [l EXCEPT !.head = next,
                       !.tail = IF next = Nil THEN Nil ELSE @,
                       !.size = @ - 1]

\* for current.Next() != l.Tail() { current = current.Next() }
RECURSIVE BeforeTail(_, _)
BeforeTail(l, current) ==
    IF l.mem[current].next # l.tail
    THEN BeforeTail(l, l.mem[current].next)
    ELSE current

RemoveLast(l) ==
    IF ListIsEmpty(l)
    THEN l
    ELSE IF ListSize(l) = 1
    THEN [l EXCEPT !.head = Nil, !.tail = Nil, !.size = @ - 1]
    ELSE LET current == BeforeTail(l, l.head)
         IN  [l EXCEPT !.mem[current].next = Nil, !.tail = current,
                       !.size = @ - 1]

\* the loop of Remove
RECURSIVE RemoveLoop(_, _, _, _)
RemoveLoop(l, prev, current, data) ==
    IF current = Nil THEN l
    ELSE IF l.mem[current].data = data
    THEN [l EXCEPT !.mem[prev].next = l.mem[current].next,
                   !.tail = IF current = l.tail THEN prev ELSE @,
                   !.size = @ - 1]
    ELSE RemoveLoop(l, current, l.mem[current].next, data)

ListRemove(l, data) ==
    IF ListIsEmpty(l) THEN l
    ELSE IF l.mem[l.head].data = data THEN RemoveFirst(l)
    ELSE RemoveLoop(l, l.head, l.mem[l.head].next, data)

\* for i := 1; i < index; i++ { prev = prev.Next() }
RECURSIVE NodeBefore(_, _, _, _)
NodeBefore(l, prev, i, index) ==
    IF i < index THEN NodeBefore(l, l.mem[prev].next, i + 1, index) ELSE prev

ErrIndexOutOfBounds == "index out of bounds"

InsertAtGenericStrict(l, index, data) ==
    IF index < 0 \/ index >= ListSize(l)
    THEN [list |-> l, err |-> ErrIndexOutOfBounds]
    ELSE IF index = 0
    THEN [list |-> Prepend(l, data), err |-> NoError]
    ELSE LET newNode == NewSinglyLinkedNode(l)
             made == WithNode(l, newNode, data)
             prev == NodeBefore(made, made.head, 1, index)
         IN  [list |-> [made EXCEPT !.mem[newNode].next = made.mem[prev].next,
                                    !.mem[prev].next = newNode,
                                    !.size = @ + 1],
              err |-> NoError]

\* package singlylinkedlist, InsertAt: the list afterwards and the error
InsertAtGeneric(l, index, data) ==
    IF index < 0 \/ index > ListSize(l)
    THEN [list |-> l, err |-> ErrIndexOutOfBounds]
    ELSE IF index = 0
    THEN [list |-> Prepend(l, data), err |-> NoError]
    ELSE IF index = ListSize(l)
    THEN [list |-> ListAppend(l, data), err |-> NoError]
    ELSE LET newNode == NewSinglyLinkedNode(l)
             made == WithNode(l, newNode, data)
             prev == NodeBefore(made, made.head, 1, index)
         IN  [list |-> [made EXCEPT !.mem[newNode].next = made.mem[prev].next,
                                    !.mem[prev].next = newNode,
                                    !.size = @ + 1],
              err |-> NoError]

\* package singlylinkedlistany, InsertAt: the list afterwards and the error
\* an InsertAt that leaves the tail alone
InsertAtAnyKeepsTail(l, index, data) ==
    IF index < 0 \/ index > ListSize(l)
    THEN [list |-> l, err |-> ErrIndexOutOfBounds]
    ELSE IF index = 0
    THEN [list |-> Prepend(l, data), err |-> NoError]
    ELSE LET newNode == NewSinglyLinkedNode(l)
             made == WithNode(l, newNode, data)
             prev == NodeBefore(made, made.head, 1, index)
             next == made.mem[prev].next
         IN  [list |-> [made EXCEPT !.mem[newNode].next = next,
                                    !.mem[prev].next = newNode,
                                    !.size = @ + 1],
              err |-> NoError]

InsertAtAny(l, index, data) ==
    IF index < 0 \/ index > ListSize(l)
    THEN [list |-> l, err |-> ErrIndexOutOfBounds]
    ELSE IF index = 0
    THEN [list |-> Prepend(l, data), err |-> NoError]
    ELSE LET newNode == NewSinglyLinkedNode(l)
             made == WithNode(l, newNode, data)
             prev == NodeBefore(made, made.head, 1, index)
             next == made.mem[prev].next
         IN  [list |-> [made EXCEPT !.mem[newNode].next = next,
                                    !.mem[prev].next = newNode,
                                    !.tail = IF next = Nil THEN newNode ELSE @,
                                    !.size = @ + 1],
              err |-> NoError]

\* for l.Head() != nil && l.Head().Data() == data { l.RemoveFirst() }
RECURSIVE RemoveHeads(_, _)
RemoveHeads(l, data) ==
    IF l.head # Nil /\ l.mem[l.head].data = data
    THEN RemoveHeads(RemoveFirst(l), data)
    ELSE l

\* the second loop of RemoveAll
RECURSIVE RemoveAllLoop(_, _, _, _)
RemoveAllLoop(l, prev, current, data) ==
    IF current = Nil THEN l
    ELSE IF l.mem[current].data = data
    THEN LET unlinked ==
                 [l EXCEPT !.mem[prev].next = l.mem[current].next,
                           !.size = @ - 1,
                           !.tail = IF current = l.tail THEN prev ELSE @]
         IN  RemoveAllLoop(unlinked, prev, unlinked.mem[prev].next, data)
    ELSE RemoveAllLoop(l, current, l.mem[current].next, data)

RemoveAllFirstOnly(l, data) == ListRemove(l, data)

RemoveAll(l, data) ==
    IF ListIsEmpty(l)
    THEN l
    ELSE LET beheaded == RemoveHeads(l, data)
         IN  IF ListIsEmpty(beheaded)
             THEN beheaded
             ELSE RemoveAllLoop(beheaded, beheaded.head,
                                beheaded.mem[beheaded.head].next, data)

\* for current != nil { next := current.Next(); current.SetNext(prev);
\* prev = current; current = next }: the list and prev afterwards
RECURSIVE ReverseLoop(_, _, _)
ReverseLoop(l, prev, current) ==
    IF current = Nil
    THEN [list |-> l, prev |-> prev]
    ELSE LET next == l.mem[current].next
         IN  ReverseLoop([l EXCEPT !.mem[current].next = prev], current, next)

ReverseGenericKeepsTail(l) ==
    IF ListIsEmpty(l) \/ ListSize(l) = 1
    THEN l
    ELSE LET r == ReverseLoop(l, Nil, l.head)
         IN  [r.list EXCEPT !.head = r.prev]

\* package singlylinkedlist, Reverse
ReverseGeneric(l) ==
    IF ListIsEmpty(l) \/ ListSize(l) = 1
    THEN l
    ELSE LET r == ReverseLoop([l EXCEPT !.tail = l.head], Nil, l.head)
         IN  [r.list EXCEPT !.head = r.prev]

\* for l.Tail().Next() != nil { l.tail = l.Tail().Next() }
RECURSIVE LastFrom(_, _)
LastFrom(l, node) ==
    IF l.mem[node].next # Nil THEN LastFrom(l, l.mem[node].next) ELSE node

\* package singlylinkedlistany, Reverse
ReverseAny(l) ==
    LET r == ReverseLoop(l, Nil, l.head)
        headed == [r.list EXCEPT !.head = r.prev]
    IN  IF headed.head # Nil
        THEN [headed EXCEPT !.tail = LastFrom(headed, headed.head)]
        ELSE headed

\* the nodes the list still points to; the others are garbage
RECURSIVE ReachFrom(_, _, _)
ReachFrom(l, node, seen) ==
    IF node = Nil \/ node \in seen
    THEN seen
    ELSE ReachFrom(l, l.mem[node].next, seen \cup {node})

Reachable(l) == ReachFrom(l, l.tail, ReachFrom(l, l.head, {}))

\* the garbage collector frees the nodes nothing points to
Collect(l) ==
    [l EXCEPT !.mem = [n \in NodeIds |-> IF n \in Reachable(l) THEN @[n]
                                         ELSE FreeCell]]

(***************************************************************************)
(* package bitmap.  A uint32 is modelled by the set of the positions of    *)
(* its 1 bits, a subset of 0..31: x | y is the union, x &^ y the           *)
(* difference, x ^ y the symmetric difference.                             *)
(***************************************************************************)
BitmapSize == 32

ErrInvalidPosition == "invalid position"

\* the uint8 positions the callers pass: the ends of the valid range, some
\* positions inside it, and three past it
Positions == {0, 1, 15, 30, 31, 32, 33, 255}

\* 1 << pos in uint32: a shift by 32 or more gives 0
ShiftOne(pos) == IF pos < 32 THEN {pos} ELSE {}

\* a range check that lets position 32 through
isOutOfRangeAbove(pos) == pos > BitmapSize

isOutOfRange(pos) == pos >= BitmapSize

NewBitMap == [bits |-> {}]

\* bm.On(pos): the bitmap afterwards and the error returned
On(b, pos) ==
    IF isOutOfRange(pos)
    THEN [bitmap |-> b, err |-> ErrInvalidPosition]
    ELSE [bitmap |-> [b EXCEPT !.bits = @ \cup ShiftOne(pos)], err |-> NoError]

\* bm.Off(pos)
Off(b, pos) ==
    IF isOutOfRange(pos)
    THEN [bitmap |-> b, err |-> ErrInvalidPosition]
    ELSE [bitmap |-> [b EXCEPT !.bits = @ \ ShiftOne(pos)], err |-> NoError]

\* a Toggle that only sets the bit
ToggleSets(b, pos) ==
    IF isOutOfRange(pos)
    THEN [bitmap |-> b, err |-> ErrInvalidPosition]
    ELSE [bitmap |-> [b EXCEPT !.bits = @ \cup ShiftOne(pos)], err |-> NoError]

\* bm.Toggle(pos)
Toggle(b, pos) ==
    IF isOutOfRange(pos)
    THEN [bitmap |-> b, err |-> ErrInvalidPosition]
    ELSE [bitmap |-> [b EXCEPT !.bits = (@ \ ShiftOne(pos))
                                       \cup (ShiftOne(pos) \ @)],
          err |-> NoError]

Reset(b) == [b EXCEPT !.bits = {}]

\* bm.IsOn(pos): the boolean and the error returned
IsOn(b, pos) ==
    IF isOutOfRange(pos)
    THEN [val |-> FALSE, err |-> ErrInvalidPosition]
    ELSE [val |-> (b.bits \cap ShiftOne(pos)) # {}, err |-> NoError]

GetMap(b) == b.bits

(***************************************************************************)
(* package set.  T = int.  A *Set is a record: nil says it is the nil      *)
(* pointer, elements is the set of the keys of the map.  The loops over a  *)
(* map take its keys one at a time; what they compute does not depend on   *)
(* the order.                                                              *)
(***************************************************************************)
ErrNilSet == "nil set"

SetElems == {1, 2, 3}

NilSet == [nil |-> TRUE, elements |-> {}]

\* s.Contains(element): the boolean and the error returned
Contains(s, element) ==
    IF s.nil
    THEN [val |-> FALSE, err |-> ErrNilSet]
    ELSE [val |-> element \in s.elements, err |-> NoError]

\* for _, element := range elements { s.elements[element] = struct{}{} }
RECURSIVE AddLoop(_, _)
AddLoop(s, elements) ==
    IF elements = <<>>
    THEN s
    ELSE AddLoop([s EXCEPT !.elements = @ \cup {Head(elements)}], Tail(elements))

\* s.Add(elements...): the set afterwards and the error returned
Add(s, elements) ==
    IF s.nil
    THEN [set |-> s, err |-> ErrNilSet]
    ELSE [set |-> AddLoop(s, elements), err |-> NoError]

\* NewSet(elements...)
NewSet(elements) == Add([nil |-> FALSE, elements |-> {}], elements).set

\* s.Remove(element)
SetRemove(s, element) ==
    IF s.nil
    THEN [set |-> s, err |-> ErrNilSet]
    ELSE [set |-> [s EXCEPT !.elements = @ \ {element}], err |-> NoError]

\* s.Size(): the int and the error returned
SetSize(s) ==
    IF s.nil
    THEN [val |-> 0, err |-> ErrNilSet]
    ELSE [val |-> Cardinality(s.elements), err |-> NoError]

\* s.Values(): the elements in the order the map yields them, which order
\* says, and the error returned; nil is the empty slice
SetValues(s, order) ==
    IF s.nil
    THEN [val |-> <<>>, err |-> ErrNilSet]
    ELSE [val |-> order, err |-> NoError]

\* the orders in which a map may yield its keys
Orders(keys) ==
    {o \in [1 .. Cardinality(keys) -> keys] : Range(o) = keys}

\* s.Clear()
SetClear(s) ==
    IF s.nil
    THEN [set |-> s, err |-> ErrNilSet]
    ELSE [set |-> [s EXCEPT !.elements = {}], err |-> NoError]

\* s.IsEmpty()
SetIsEmpty(s) ==
    IF s.nil
    THEN [val |-> FALSE, err |-> ErrNilSet]
    ELSE [val |-> SetSize(s).val = 0, err |-> NoError]

\* for k := range keys { result.Add(k) }
RECURSIVE CopyLoop(_, _)
CopyLoop(result, keys) ==
    IF keys = {}
    THEN result
    ELSE LET k == CHOOSE k \in keys : TRUE
         IN  CopyLoop(Add(result, <<k>>).set, keys \ {k})

\* for k := range keys { exists, _ := other.Contains(k);
\* if exists (or: if !exists) { result.Add(k) } }
RECURSIVE FilterLoop(_, _, _, _)
FilterLoop(result, keys, other, wanted) ==
    IF keys = {}
    THEN result
    ELSE LET k == CHOOSE k \in keys : TRUE
             exists == Contains(other, k).val
         IN  FilterLoop(IF exists = wanted THEN Add(result, <<k>>).set ELSE result,
                        keys \ {k}, other, wanted)

\* s.Union(other): the new set and the error returned
Union(s, other) ==
    IF s.nil \/ other.nil
    THEN [set |-> NilSet, err |-> ErrNilSet]
    ELSE [set |-> CopyLoop(CopyLoop(NewSet(<<>>), s.elements), other.elements),
          err |-> NoError]

Intersection(s, other) ==
    IF s.nil \/ other.nil
    THEN [set |-> NilSet, err |-> ErrNilSet]
    ELSE [set |-> FilterLoop(NewSet(<<>>), s.elements, other, TRUE),
          err |-> NoError]

\* a Difference that keeps the elements of other that are not in s
DifferenceSwapped(s, other) ==
    IF s.nil \/ other.nil
    THEN [set |-> NilSet, err |-> ErrNilSet]
    ELSE [set |-> FilterLoop(NewSet(<<>>), other.elements, s, FALSE),
          err |-> NoError]

Difference(s, other) ==
    IF s.nil \/ other.nil
    THEN [set |-> NilSet, err |-> ErrNilSet]
    ELSE [set |-> FilterLoop(NewSet(<<>>), s.elements, other, FALSE),
          err |-> NoError]

SymmetricDifference(s, other) ==
    IF s.nil \/ other.nil
    THEN [set |-> NilSet, err |-> ErrNilSet]
    ELSE [set |-> FilterLoop(FilterLoop(NewSet(<<>>), s.elements, other, FALSE),
                             other.elements, s, FALSE),
          err |-> NoError]

\* for k := range keys { exists, _ := other.Contains(k);
\* if !exists { return false, nil } }; return true, nil
RECURSIVE AllInLoop(_, _)
AllInLoop(keys, other) ==
    IF keys = {}
    THEN TRUE
    ELSE LET k == CHOOSE k \in keys : TRUE
         IN  IF ~Contains(other, k).val THEN FALSE
             ELSE AllInLoop(keys \ {k}, other)

\* a Subset that checks only its receiver for nil
SubsetReceiverOnly(s, other) ==
    IF s.nil
    THEN [val |-> FALSE, err |-> ErrNilSet]
    ELSE [val |-> AllInLoop(s.elements, other), err |-> NoError]

\* s.Equal(other): the boolean and the error returned
Equal(s, other) ==
    IF s.nil \/ other.nil
    THEN [val |-> FALSE, err |-> ErrNilSet]
    ELSE IF SetSize(s).val # SetSize(other).val
    THEN [val |-> FALSE, err |-> NoError]
    ELSE [val |-> AllInLoop(s.elements, other), err |-> NoError]

Subset(s, other) ==
    IF s.nil \/ other.nil
    THEN [val |-> FALSE, err |-> ErrNilSet]
    ELSE [val |-> AllInLoop(s.elements, other), err |-> NoError]

Superset(s, other) ==
    IF s.nil \/ other.nil
    THEN [val |-> FALSE, err |-> ErrNilSet]
    ELSE [val |-> Subset(other, s).val, err |-> NoError]

(***************************************************************************)
(* package dictionary.  K = string, V = int.  A *Dictionary is a record:   *)
(* nil says it is the nil pointer, dict is the map.  Reading the field     *)
(* d.dict through a nil pointer panics.                                    *)
(***************************************************************************)
ErrNonExistentKey == "non-existent key"

DictKeys == {"a", "b"}

DictVals == {1, 2, 3}

NilDictionary == [nil |-> TRUE, dict |-> <<>>]

NewDictionary == [nil |-> FALSE, dict |-> <<>>]

\* what a call returns: ok is the boolean, val the value or the int; panic
\* says that the call panicked instead of returning
DictResult(d, val, ok, err) ==
    [dictionary |-> d, val |-> val, ok |-> ok, err |-> err, panic |-> FALSE]

\* panic: invalid memory address or nil pointer dereference
DictPanic(d) ==
    [dictionary |-> d, val |-> 0, ok |-> FALSE, err |-> NoError, panic |-> TRUE]

\* d.Put(key, value)
Put(d, key, value) ==
    IF d.nil
    THEN DictPanic(d)
    ELSE LET exists == key \in DOMAIN d.dict
             stored == [k \in DOMAIN d.dict \cup {key} |->
                           IF k = key THEN value ELSE d.dict[k]]
         IN  DictResult([d EXCEPT !.dict = stored], 0, exists, NoError)

\* d.Contains(key)
DictContains(d, key) ==
    IF d.nil
    THEN DictPanic(d)
    ELSE DictResult(d, 0, key \in DOMAIN d.dict, NoError)

\* d.Get(key)
Get(d, key) ==
    IF d.nil
    THEN DictPanic(d)
    ELSE IF key \notin DOMAIN d.dict
    THEN DictResult(d, 0, FALSE, ErrNonExistentKey)
    ELSE DictResult(d, d.dict[key], FALSE, NoError)

\* d.Remove(key)
DictRemove(d, key) ==
    IF d.nil
    THEN DictPanic(d)
    ELSE LET exists == key \in DOMAIN d.dict
             left == [k \in DOMAIN d.dict \ {key} |-> d.dict[k]]
         IN  DictResult([d EXCEPT !.dict = IF exists THEN left ELSE @], 0,
                        exists, NoError)

\* d.Size()
DictSize(d) ==
    IF d.nil
    THEN DictPanic(d)
    ELSE DictResult(d, Cardinality(DOMAIN d.dict), FALSE, NoError)

\* d.Clear(): the assignment d.dict = make(map[K]V) through a nil pointer
\* panics too
DictClear(d) ==
    IF d.nil
    THEN DictPanic(d)
    ELSE DictResult([d EXCEPT !.dict = <<>>], 0, FALSE, NoError)

(***************************************************************************)
(* Calls on the heap h.                                                    *)
(***************************************************************************)
Returned(op, val, err) == [op |-> op, val |-> val, err |-> err]

\* h.Insert(element), with the bookkeeping of the call history
DoInsert(element) ==
    /\ h' = Insert(h, element)
    /\ inserts' = inserts + 1
    /\ ret' = Returned("Insert", Zero, NoError)
    /\ phase' = IF Size(h) = 0 \/ phase = "fill" THEN "fill" ELSE "mixed"
    /\ ins' = IF Size(h) = 0 THEN <<element>>
              ELSE IF phase = "fill" THEN Append(ins, element)
              ELSE <<>>
    /\ out' = <<>>
    /\ peeks' = 0
    /\ UNCHANGED <<ctor, removes>>

CallInsert(element) ==
    /\ Size(h) < MaxSize
    /\ inserts < MaxOps
    /\ DoInsert(element)
    /\ UNCHANGED fed
    /\ UNCHANGED exceptHeap

CallRemove ==
    LET r == Remove(h)
    IN  /\ h' = r.heap
        /\ ret' = Returned("Remove", r.element, r.err)
        /\ removes' = IF r.err = NoError THEN removes + 1 ELSE removes
        /\ phase' = IF r.err = NoError /\ phase = "fill" THEN "drain" ELSE phase
        /\ out' = IF r.err = NoError THEN Append(out, r.element) ELSE out
        /\ peeks' = 0
        /\ UNCHANGED <<ctor, inserts, ins, fed>>
        /\ UNCHANGED exceptHeap

CallPeek ==
    LET r == Peek(h)
    IN  /\ ret' = Returned("Peek", r.element, r.err)
        /\ peeks' = IF peeks = 0 THEN 1 ELSE 2
        /\ UNCHANGED <<h, ctor, inserts, removes, phase, ins, out, fed>>
        /\ UNCHANGED exceptHeap

CallSize ==
    /\ ret' = Returned("Size", Size(h), NoError)
    /\ peeks' = 0
    /\ UNCHANGED <<h, ctor, inserts, removes, phase, ins, out, fed>>
    /\ UNCHANGED exceptHeap

\* the heaps the tests build
HeapsUnderTest ==
    { [ctor |-> "NewMinHeap", heap |-> NewMinHeap(Func("intComparator"))],
      [ctor |-> "NewMaxHeap", heap |-> NewMaxHeap(Func("intComparator"))],
      [ctor |-> "NewGenericHeap",
       heap |-> NewGenericHeap(Func("peopleFromOldestToYoungest"))] }

InitHeap(made) ==
    /\ h = made.heap
    /\ ctor = made.ctor
    /\ inserts = 0
    /\ removes = 0
    /\ ret = Returned("new", Zero, NoError)
    /\ phase = "fill"
    /\ ins = <<>>
    /\ out = <<>>
    /\ peeks = 0
    /\ fed = 0

\* the Enqueue calls of the priority queue tests
PQTests ==
    {"TestPriorityQueueEnqueueDequeueMin", "TestPriorityQueueEnqueueDequeueMax",
     "TestPriorityQueuePeek", "TestPriorityQueueClear"}

PQTestEnqueues(test) ==
    CASE test = "TestPriorityQueueEnqueueDequeueMin" ->
             <<prioritized("low", 10), prioritized("medium", 5),
               prioritized("high", 1)>>
      [] test = "TestPriorityQueueEnqueueDequeueMax" ->
             <<prioritized("low", 1), prioritized("medium", 5),
               prioritized("high", 10)>>
      [] test = "TestPriorityQueuePeek" ->
             <<prioritized("a", 2), prioritized("b", 1)>>
      [] test = "TestPriorityQueueClear" ->
             <<prioritized("x", 1), prioritized("y", 2)>>

NewPriorityQueue(name) ==
    IF name = "NewMinPriorityQueue" THEN NewMinPriorityQueue
    ELSE NewMaxPriorityQueue

InitQueue(name) ==
    /\ pq = NewPriorityQueue(name)
    /\ pqCtor = name
    /\ pqRet = Returned("new", ZeroT, NoError)
    /\ pqOut = <<>>
    /\ pqCleared = 0
    /\ pqScript = "TestPriorityQueueEnqueueDequeueMin"
    /\ pqFed = 0

\* a comparator that is not transitive: 1 before 2, 2 before 3, 3 before 1
cyclicComparator ==
    [p \in {1, 2, 3} \X {1, 2, 3} |->
        IF p[1] = p[2] THEN 0 ELSE IF (p[2] - p[1]) % 3 = 1 THEN -1 ELSE 1]

\* the comparators a careless caller may pass: any table of results over
\* two elements (most of them are no order at all: an element differs from
\* itself, or two elements are each before the other), and the cyclic one
BadComparators == [{1, 2} \X {1, 2} -> {-1, 0, 1}] \cup {cyclicComparator}

\* the elements a table compares
Compared(table) == {p[1] : p \in DOMAIN table}

TableFunc(table) == [fn |-> "table", swap |-> FALSE, table |-> table]

InitBad(table) ==
    /\ bh = NewGenericHeap(TableFunc(table))
    /\ bhRet = "new"
    /\ touched = {}

InitFifo ==
    /\ fifo = NewQueue
    /\ qRet = Returned("new", Zero, NoError)
    /\ qEnq = <<>>
    /\ qDeq = <<>>

InitStack ==
    /\ st = NewStack
    /\ stRet = Returned("new", Zero, NoError)
    /\ pushes = 0
    /\ live = {}

ListReturned(op, index, data, gErr, aErr) ==
    [op |-> op, index |-> index, data |-> data, before |-> ListSize(gl),
     gErr |-> gErr, aErr |-> aErr]

InitLists ==
    /\ gl = NewSinglyLinkedList
    /\ al = NewSinglyLinkedList
    /\ lRet = ListReturned("new", 0, 0, NoError, NoError)

\* what a call on the bitmap returned: val is the bool of IsOn, map the
\* uint32 of GetMap
BitReturned(op, pos, val, map, err) ==
    [op |-> op, pos |-> pos, val |-> val, map |-> map, err |-> err]

InitBitMap ==
    /\ bm = NewBitMap
    /\ bmRet = BitReturned("new", 0, FALSE, {}, NoError)

\* what a call on a set returned: recv and arg name the receiver and the
\* argument (the variables a and b of the caller), elems are the elements
\* passed, set is the *Set returned, bool the bool, int the int, seq the
\* slice, err the error
SetReturned(op, recv, arg, elems, res) ==
    [op |-> op, recv |-> recv, arg |-> arg, elems |-> elems,
     set |-> res.set, bool |-> res.bool,
     int |-> res.int, seq |-> res.seq, err |-> res.err]

\* the results a call returns, by the type of what it returns
OnlyErr(err) == [set |-> NilSet, bool |-> FALSE, int |-> 0, seq |-> <<>>, err |-> err]

SetAndErr(r) == [OnlyErr(r.err) EXCEPT !.set = r.set]

BoolAndErr(r) == [OnlyErr(r.err) EXCEPT !.bool = r.val]

IntAndErr(r) == [OnlyErr(r.err) EXCEPT !.int = r.val]

SeqAndErr(r) == [OnlyErr(r.err) EXCEPT !.seq = r.val]

InitSets(a, b) ==
    /\ sa = a
    /\ sb = b
    /\ setRet = SetReturned("new", "a", "a", <<>>, OnlyErr(NoError))

\* what a call on the dictionary did: the key passed, the value or int and
\* the bool and error returned, or the panic
DictReturned(op, key, r) ==
    [op |-> op, key |-> key, val |-> r.val, ok |-> r.ok, err |-> r.err,
     panic |-> r.panic]

InitDictionary(d) ==
    /\ dict = d
    /\ dictRet = DictReturned("new", "a", DictResult(d, 0, FALSE, NoError))

\* the structures a specification does not exercise
IdleEarlier ==
    /\ InitHeap([ctor |-> "NewMinHeap", heap |-> NewMinHeap(Func("intComparator"))])
    /\ InitQueue("NewMinPriorityQueue")
    /\ InitBad(cyclicComparator)
    /\ InitFifo
    /\ InitStack

IdleLater ==
    /\ InitLists
    /\ InitBitMap
    /\ InitSets(NewSet(<<>>), NewSet(<<>>))
    /\ InitDictionary(NewDictionary)

IdleHeap ==
    InitHeap([ctor |-> "NewMinHeap", heap |-> NewMinHeap(Func("intComparator"))])

IdleQueue == InitQueue("NewMinPriorityQueue")

IdleBad == InitBad(cyclicComparator)

(***************************************************************************)
(* Spec: any interleaving of calls on a heap of the integers 1..MaxVal.    *)
(***************************************************************************)
Init ==
    /\ \E made \in HeapsUnderTest : InitHeap(made)
    /\ IdleQueue
    /\ IdleBad
    /\ InitFifo
    /\ InitStack
    /\ IdleLater

Next ==
    \/ \E element \in Vals : CallInsert(element)
    \/ CallRemove
    \/ CallPeek
    \/ CallSize

Spec == Init /\ [][Next]_vars

(***************************************************************************)
(* SpecScript: the heap tests.  The elements of insertionSequence are      *)
(* inserted in order; a Remove, a Peek or a Size may come at any point.    *)
(***************************************************************************)
insertionSequence == <<44, 29, 58, 2, 98, 11, 65, 3, 68, 99>>

\* TestMinHeapCreateInsertAndExtract: orderExpectedAfterInsert
orderExpectedAfterInsertMin ==
    << <<44>>,
       <<29, 44>>,
       <<29, 44, 58>>,
       <<2, 29, 58, 44>>,
       <<2, 29, 58, 44, 98>>,
       <<2, 29, 11, 44, 98, 58>>,
       <<2, 29, 11, 44, 98, 58, 65>>,
       <<2, 3, 11, 29, 98, 58, 65, 44>>,
       <<2, 3, 11, 29, 98, 58, 65, 44, 68>>,
       <<2, 3, 11, 29, 98, 58, 65, 44, 68, 99>> >>

\* TestMaxHeapCreateInsertAndExtract: orderExpectedAfterInsert
orderExpectedAfterInsertMax ==
    << <<44>>,
       <<44, 29>>,
       <<58, 29, 44>>,
       <<58, 29, 44, 2>>,
       <<98, 58, 44, 2, 29>>,
       <<98, 58, 44, 2, 29, 11>>,
       <<98, 58, 65, 2, 29, 11, 44>>,
       <<98, 58, 65, 3, 29, 11, 44, 2>>,
       <<98, 68, 65, 58, 29, 11, 44, 2, 3>>,
       <<99, 98, 65, 58, 68, 11, 44, 2, 3, 29>> >>

\* TestMaxHeapCreateInsertAndExtract: orderExpectedAfterDelete
orderExpectedAfterDelete ==
    << <<98, 68, 65, 58, 29, 11, 44, 2, 3>>,
       <<68, 58, 65, 3, 29, 11, 44, 2>>,
       <<65, 58, 44, 3, 29, 11, 2>>,
       <<58, 29, 44, 3, 2, 11>>,
       <<44, 29, 11, 3, 2>>,
       <<29, 3, 11, 2>>,
       <<11, 3, 2>>,
       <<3, 2>>,
       <<2>>,
       <<>> >>

ScriptInsert ==
    /\ fed < Len(insertionSequence)
    /\ DoInsert(insertionSequence[fed + 1])
    /\ fed' = fed + 1
    /\ UNCHANGED exceptHeap

InitScript ==
    /\ \E made \in HeapsUnderTest : InitHeap(made)
    /\ IdleQueue
    /\ IdleBad
    /\ InitFifo
    /\ InitStack
    /\ IdleLater

NextScript ==
    \/ ScriptInsert
    \/ CallRemove
    \/ CallPeek
    \/ CallSize

SpecScript == InitScript /\ [][NextScript]_vars

(***************************************************************************)
(* SpecPQ: any interleaving of calls on a priority queue of strings.       *)
(***************************************************************************)
\* pq.Enqueue(value, priority), with the bookkeeping of the call history
DoEnqueue(value, priority) ==
    /\ pq' = PQEnqueue(pq, value, priority)
    /\ pqRet' = Returned("Enqueue", ZeroT, NoError)
    /\ pqOut' = <<>>
    /\ UNCHANGED <<pqCtor, pqCleared, pqScript>>
    /\ UNCHANGED exceptPQ

CallEnqueue(value, priority) ==
    /\ PQSize(pq) < MaxQueue
    /\ DoEnqueue(value, priority)
    /\ UNCHANGED pqFed

CallDequeue ==
    LET r == PQDequeue(pq)
    IN  /\ pq' = r.queue
        /\ pqRet' = Returned("Dequeue", r.value, r.err)
        /\ pqOut' = IF r.err = NoError THEN Append(pqOut, r.value) ELSE pqOut
        /\ UNCHANGED <<pqCtor, pqCleared, pqScript, pqFed>>
        /\ UNCHANGED exceptPQ

CallPQPeek ==
    LET r == PQPeek(pq)
    IN  /\ pqRet' = Returned("Peek", r.value, r.err)
        /\ UNCHANGED <<pq, pqCtor, pqOut, pqCleared, pqScript, pqFed>>
        /\ UNCHANGED exceptPQ

CallClear ==
    /\ pq' = PQClear(pq)
    /\ pqRet' = Returned("Clear", ZeroT, NoError)
    /\ pqOut' = <<>>
    /\ pqCleared' = PQSize(pq)
    /\ UNCHANGED <<pqCtor, pqScript, pqFed>>
    /\ UNCHANGED exceptPQ

InitPQ ==
    /\ IdleHeap
    /\ \E name \in {"NewMinPriorityQueue", "NewMaxPriorityQueue"} : InitQueue(name)
    /\ IdleBad
    /\ InitFifo
    /\ InitStack
    /\ IdleLater

NextPQ ==
    \/ \E value \in PQValues, priority \in Priorities : CallEnqueue(value, priority)
    \/ CallDequeue
    \/ CallPQPeek
    \/ CallClear

SpecPQ == InitPQ /\ [][NextPQ]_vars

(***************************************************************************)
(* SpecPQScript: the priority queue tests.  The Enqueue calls of one test  *)
(* are made in order, on a queue of either constructor; a Dequeue, a Peek  *)
(* or a Clear may come at any point.                                       *)
(***************************************************************************)
ScriptEnqueue ==
    /\ pqFed < Len(PQTestEnqueues(pqScript))
    /\ LET item == PQTestEnqueues(pqScript)[pqFed + 1]
       IN  DoEnqueue(item.value, item.priority)
    /\ pqFed' = pqFed + 1

InitPQScript ==
    /\ IdleHeap
    /\ \E name \in {"NewMinPriorityQueue", "NewMaxPriorityQueue"} :
           /\ pq = NewPriorityQueue(name)
           /\ pqCtor = name
    /\ pqRet = Returned("new", ZeroT, NoError)
    /\ pqOut = <<>>
    /\ pqCleared = 0
    /\ pqScript \in PQTests
    /\ pqFed = 0
    /\ IdleBad
    /\ InitFifo
    /\ InitStack
    /\ IdleLater

NextPQScript ==
    \/ ScriptEnqueue
    \/ CallDequeue
    \/ CallPQPeek
    \/ CallClear

SpecPQScript == InitPQScript /\ [][NextPQScript]_vars

(***************************************************************************)
(* SpecBad: any interleaving of calls on a heap whose comparator is any of *)
(* BadComparators.  The calls on bh record the element accesses they make. *)
(***************************************************************************)
BadInsert(element) ==
    /\ Size(bh) < MaxBadSize
    /\ bh' = Insert(bh, element)
    /\ touched' = InsertAccesses(bh, element)
    /\ bhRet' = "Insert"
    /\ UNCHANGED exceptBad

BadRemove ==
    /\ bh' = Remove(bh).heap
    /\ touched' = RemoveAccesses(bh)
    /\ bhRet' = "Remove"
    /\ UNCHANGED exceptBad

BadPeek ==
    /\ touched' = PeekAccesses(bh)
    /\ bhRet' = "Peek"
    /\ UNCHANGED bh
    /\ UNCHANGED exceptBad

InitSpecBad ==
    /\ IdleHeap
    /\ IdleQueue
    /\ \E table \in BadComparators : InitBad(table)
    /\ InitFifo
    /\ InitStack
    /\ IdleLater

NextBad ==
    \/ \E element \in Compared(bh.compare.table) : BadInsert(element)
    \/ BadRemove
    \/ BadPeek

SpecBad == InitSpecBad /\ [][NextBad]_vars

(***************************************************************************)
(* SpecTies: any interleaving of Insert and Remove on the heap of a min    *)
(* priority queue, whose elements carry a value beside the priority that   *)
(* is compared, so that elements of equal priority can be told apart.      *)
(***************************************************************************)
TieValues == {"a", "b", "c"}

TiePriorities == {1, 2}

TieItems == {prioritized(value, priority) :
                value \in TieValues, priority \in TiePriorities}

\* what a call did: element is the element inserted or returned, last the
\* element that Remove moved from the end to the root
TieReturned(op, element, last) == [op |-> op, element |-> element, last |-> last]

NoItem == prioritized(ZeroT, 0)

TieInsert(element) ==
    /\ Size(bh) < MaxTies
    /\ bh' = Insert(bh, element)
    /\ bhRet' = TieReturned("Insert", element, NoItem)
    /\ UNCHANGED touched
    /\ UNCHANGED exceptBad

TieRemove ==
    LET r == Remove(bh)
    IN  /\ Size(bh) > 0
        /\ bh' = r.heap
        /\ bhRet' = TieReturned("Remove", r.element, At(bh, Size(bh) - 1))
        /\ UNCHANGED touched
        /\ UNCHANGED exceptBad

InitSpecTies ==
    /\ IdleHeap
    /\ IdleQueue
    /\ bh = NewMinPriorityQueue.heap
    /\ bhRet = TieReturned("new", NoItem, NoItem)
    /\ touched = {}
    /\ InitFifo
    /\ InitStack
    /\ IdleLater

NextTies ==
    \/ \E element \in TieItems : TieInsert(element)
    \/ TieRemove

SpecTies == InitSpecTies /\ [][NextTies]_vars

(***************************************************************************)
(* SpecEngines: two heaps given the same calls.  h is built by NewMaxHeap  *)
(* or NewMinHeap with a comparator cmp; bh is built by NewGenericHeap with *)
(* the comparator that the claim sets against it: cmp with its arguments   *)
(* exchanged for NewMaxHeap, cmp itself for NewMinHeap.                     *)
(***************************************************************************)
\* cmp'(a, b) = cmp(b, a), as a function of its own
Flipped(table) == [pair \in DOMAIN table |-> table[<<pair[2], pair[1]>>]]

\* the two heaps the claim compares, for a constructor and a comparator
EnginePair(name, table) ==
    IF name = "NewMaxHeap"
    THEN [one |-> NewMaxHeap(TableFunc(table)),
          other |-> NewGenericHeap(TableFunc(Flipped(table)))]
    ELSE [one |-> NewMinHeap(TableFunc(table)),
          other |-> NewGenericHeap(TableFunc(table))]

\* both calls returned: the heaps afterwards and what each call returned
EnginesAfter(op, one, other) ==
    /\ h' = one.heap
    /\ ret' = Returned(op, one.element, one.err)
    /\ bh' = other.heap
    /\ bhRet' = Returned(op, other.element, other.err)
    /\ UNCHANGED <<ctor, inserts, removes, phase, ins, out, peeks, fed, touched>>
    /\ UNCHANGED <<pqVars, fifoVars, stackVars, laterVars>>

Inserted(hp, element) ==
    [heap |-> Insert(hp, element), element |-> Zero, err |-> NoError]

Peeked(hp) == [heap |-> hp, element |-> Peek(hp).element, err |-> Peek(hp).err]

EnginesInsert(element) ==
    /\ Size(h) < MaxBadSize
    /\ EnginesAfter("Insert", Inserted(h, element), Inserted(bh, element))

EnginesRemove == EnginesAfter("Remove", Remove(h), Remove(bh))

EnginesPeek == EnginesAfter("Peek", Peeked(h), Peeked(bh))

InitSpecEngines ==
    /\ \E name \in {"NewMaxHeap", "NewMinHeap"}, table \in BadComparators :
          /\ h = EnginePair(name, table).one
          /\ bh = EnginePair(name, table).other
          /\ ctor = name
    /\ ret = Returned("new", Zero, NoError)
    /\ bhRet = Returned("new", Zero, NoError)
    /\ inserts = 0
    /\ removes = 0
    /\ phase = "fill"
    /\ ins = <<>>
    /\ out = <<>>
    /\ peeks = 0
    /\ fed = 0
    /\ touched = {}
    /\ IdleQueue
    /\ InitFifo
    /\ InitStack
    /\ IdleLater

NextEngines ==
    \/ \E element \in Compared(bh.compare.table) : EnginesInsert(element)
    \/ EnginesRemove
    \/ EnginesPeek

SpecEngines == InitSpecEngines /\ [][NextEngines]_vars

(***************************************************************************)
(* SpecAlias: any interleaving of calls on a min heap of the integers      *)
(* 1..MaxVal, by a caller that also writes into the slice Elements()       *)
(* returned.                                                               *)
(***************************************************************************)
CallerWrites(i, value) ==
    /\ i < Size(bh)
    /\ bh' = WriteThroughElements(bh, i, value)
    /\ touched' = {}
    /\ bhRet' = "Elements"
    /\ UNCHANGED exceptBad

InitSpecAlias ==
    /\ IdleHeap
    /\ IdleQueue
    /\ bh = NewMinHeap(Func("intComparator"))
    /\ bhRet = "new"
    /\ touched = {}
    /\ InitFifo
    /\ InitStack
    /\ IdleLater

NextAlias ==
    \/ \E element \in Vals : BadInsert(element)
    \/ BadRemove
    \/ BadPeek
    \/ \E i \in 0 .. MaxBadSize - 1, value \in Vals : CallerWrites(i, value)

SpecAlias == InitSpecAlias /\ [][NextAlias]_vars

(***************************************************************************)
(* SpecFifo: any interleaving of calls on a queue of the integers          *)
(* 1..MaxVal.                                                              *)
(***************************************************************************)
CallQEnqueue(value) ==
    /\ Len(qEnq) < MaxEnqueues
    /\ fifo' = QEnqueue(fifo, value)
    /\ qRet' = Returned("Enqueue", Zero, NoError)
    /\ qEnq' = Append(qEnq, value)
    /\ UNCHANGED qDeq
    /\ UNCHANGED exceptFifo

CallQDequeue ==
    LET r == QDequeue(fifo)
    IN  /\ fifo' = r.queue
        /\ qRet' = Returned("Dequeue", r.value, r.err)
        /\ qDeq' = IF r.err = NoError THEN Append(qDeq, r.value) ELSE qDeq
        /\ UNCHANGED qEnq
        /\ UNCHANGED exceptFifo

CallQFront ==
    LET r == QFront(fifo)
    IN  /\ qRet' = Returned("Front", r.value, r.err)
        /\ UNCHANGED <<fifo, qEnq, qDeq>>
        /\ UNCHANGED exceptFifo

CallQSize ==
    /\ qRet' = Returned("Size", QSize(fifo), NoError)
    /\ UNCHANGED <<fifo, qEnq, qDeq>>
    /\ UNCHANGED exceptFifo

CallQClear ==
    /\ fifo' = QClear(fifo)
    /\ qRet' = Returned("Clear", Zero, NoError)
    /\ qEnq' = <<>>
    /\ qDeq' = <<>>
    /\ UNCHANGED exceptFifo

InitSpecFifo ==
    /\ IdleHeap
    /\ IdleQueue
    /\ IdleBad
    /\ InitFifo
    /\ InitStack
    /\ IdleLater

NextFifo ==
    \/ \E value \in Vals : CallQEnqueue(value)
    \/ CallQDequeue
    \/ CallQFront
    \/ CallQSize
    \/ CallQClear

SpecFifo == InitSpecFifo /\ [][NextFifo]_vars

(***************************************************************************)
(* SpecStack: any interleaving of calls on a stack of the integers         *)
(* 1..MaxVal.                                                              *)
(***************************************************************************)
CallPush(value) ==
    /\ pushes < MaxPushes
    /\ st' = Push(st, value)
    /\ stRet' = Returned("Push", Zero, NoError)
    /\ pushes' = pushes + 1
    /\ live' = live \cup {[stamp |-> pushes + 1, value |-> value]}
    /\ UNCHANGED exceptStack

\* the most recently pushed of the pushes in l
Newest(l) == CHOOSE a \in l : \A b \in l : b.stamp <= a.stamp

CallPop ==
    LET r == Pop(st)
    IN  /\ st' = r.stack
        /\ stRet' = Returned("Pop", r.value, r.err)
        /\ live' = IF r.err = NoError /\ live # {}
                   THEN live \ {Newest(live)} ELSE live
        /\ UNCHANGED pushes
        /\ UNCHANGED exceptStack

CallTop ==
    LET r == Top(st)
    IN  /\ stRet' = Returned("Top", r.value, r.err)
        /\ UNCHANGED <<st, pushes, live>>
        /\ UNCHANGED exceptStack

CallStackSize ==
    /\ stRet' = Returned("Size", StackSize(st), NoError)
    /\ UNCHANGED <<st, pushes, live>>
    /\ UNCHANGED exceptStack

CallStackClear ==
    /\ st' = StackClear(st)
    /\ stRet' = Returned("Clear", Zero, NoError)
    /\ live' = {}
    /\ UNCHANGED pushes
    /\ UNCHANGED exceptStack

InitSpecStack ==
    /\ IdleHeap
    /\ IdleQueue
    /\ IdleBad
    /\ InitFifo
    /\ InitStack
    /\ IdleLater

NextStack ==
    \/ \E value \in Vals : CallPush(value)
    \/ CallPop
    \/ CallTop
    \/ CallStackSize
    \/ CallStackClear

SpecStack == InitSpecStack /\ [][NextStack]_vars

(***************************************************************************)
(* SpecList: any interleaving of calls on the two lists, which are given   *)
(* the same calls with the same arguments.                                 *)
(***************************************************************************)
ListsAfter(op, index, data, g, a) ==
    /\ gl' = Collect(g)
    /\ al' = Collect(a)
    /\ lRet' = ListReturned(op, index, data, NoError, NoError)
    /\ UNCHANGED exceptList

ListsNotFull == ListSize(gl) < MaxList /\ ListSize(al) < MaxList

CallPrepend(data) ==
    /\ ListsNotFull
    /\ ListsAfter("Prepend", 0, data, Prepend(gl, data), Prepend(al, data))

CallAppend(data) ==
    /\ ListsNotFull
    /\ ListsAfter("Append", 0, data, ListAppend(gl, data), ListAppend(al, data))

CallInsertAt(index, data) ==
    LET g == InsertAtGeneric(gl, index, data)
        a == InsertAtAny(al, index, data)
    IN  /\ ListsNotFull
        /\ gl' = Collect(g.list)
        /\ al' = Collect(a.list)
        /\ lRet' = ListReturned("InsertAt", index, data, g.err, a.err)
        /\ UNCHANGED exceptList

CallRemoveFirst ==
    ListsAfter("RemoveFirst", 0, 0, RemoveFirst(gl), RemoveFirst(al))

CallRemoveLast ==
    ListsAfter("RemoveLast", 0, 0, RemoveLast(gl), RemoveLast(al))

CallListRemove(data) ==
    ListsAfter("Remove", 0, data, ListRemove(gl, data), ListRemove(al, data))

CallRemoveAll(data) ==
    ListsAfter("RemoveAll", 0, data, RemoveAll(gl, data), RemoveAll(al, data))

CallReverse ==
    ListsAfter("Reverse", 0, 0, ReverseGeneric(gl), ReverseAny(al))

CallListClear ==
    ListsAfter("Clear", 0, 0, ListClear(gl), ListClear(al))

\* the indexes the callers pass to InsertAt
IndexArgs == -1 .. MaxList + 1

InitSpecList ==
    /\ IdleEarlier
    /\ IdleLater

NextList ==
    \/ \E data \in ListVals : CallPrepend(data)
    \/ \E data \in ListVals : CallAppend(data)
    \/ \E index \in IndexArgs, data \in ListVals : CallInsertAt(index, data)
    \/ CallRemoveFirst
    \/ CallRemoveLast
    \/ \E data \in ListVals : CallListRemove(data)
    \/ \E data \in ListVals : CallRemoveAll(data)
    \/ CallReverse
    \/ CallListClear

SpecList == InitSpecList /\ [][NextList]_vars

(***************************************************************************)
(* SpecBitmap: any interleaving of calls on one bitmap.                    *)
(***************************************************************************)
CallOn(pos) ==
    LET r == On(bm, pos)
    IN  /\ bm' = r.bitmap
        /\ bmRet' = BitReturned("On", pos, FALSE, {}, r.err)
        /\ UNCHANGED exceptBitmap

CallOff(pos) ==
    LET r == Off(bm, pos)
    IN  /\ bm' = r.bitmap
        /\ bmRet' = BitReturned("Off", pos, FALSE, {}, r.err)
        /\ UNCHANGED exceptBitmap

CallToggle(pos) ==
    LET r == Toggle(bm, pos)
    IN  /\ bm' = r.bitmap
        /\ bmRet' = BitReturned("Toggle", pos, FALSE, {}, r.err)
        /\ UNCHANGED exceptBitmap

CallIsOn(pos) ==
    LET r == IsOn(bm, pos)
    IN  /\ bmRet' = BitReturned("IsOn", pos, r.val, {}, r.err)
        /\ UNCHANGED bm
        /\ UNCHANGED exceptBitmap

CallReset ==
    /\ bm' = Reset(bm)
    /\ bmRet' = BitReturned("Reset", 0, FALSE, {}, NoError)
    /\ UNCHANGED exceptBitmap

CallGetMap ==
    /\ bmRet' = BitReturned("GetMap", 0, FALSE, GetMap(bm), NoError)
    /\ UNCHANGED bm
    /\ UNCHANGED exceptBitmap

InitSpecBitmap ==
    /\ IdleEarlier
    /\ IdleLater

NextBitmap ==
    \/ \E pos \in Positions : CallOn(pos)
    \/ \E pos \in Positions : CallOff(pos)
    \/ \E pos \in Positions : CallToggle(pos)
    \/ \E pos \in Positions : CallIsOn(pos)
    \/ CallReset
    \/ CallGetMap

SpecBitmap == InitSpecBitmap /\ [][NextBitmap]_vars

(***************************************************************************)
(* SpecSet: any interleaving of calls on two *Set variables a and b, each  *)
(* of which is nil or a set made by NewSet().  A binary method is called   *)
(* on either with either as its argument.                                  *)
(***************************************************************************)
SetNames == {"a", "b"}

SetOf(name) == IF name = "a" THEN sa ELSE sb

\* the call on the set named recv left it as s and returned res
SetCalled(op, recv, arg, elems, s, res) ==
    /\ sa' = IF recv = "a" THEN s ELSE sa
    /\ sb' = IF recv = "b" THEN s ELSE sb
    /\ setRet' = SetReturned(op, recv, arg, elems, res)
    /\ UNCHANGED exceptSet

\* the argument lists of Add: none, one or two elements
AddArgs == {<<>>} \cup {<<e>> : e \in SetElems} \cup (SetElems \X SetElems)

CallSetAdd(recv, elements) ==
    LET r == Add(SetOf(recv), elements)
    IN  SetCalled("Add", recv, recv, elements, r.set, OnlyErr(r.err))

CallSetRemove(recv, element) ==
    LET r == SetRemove(SetOf(recv), element)
    IN  SetCalled("Remove", recv, recv, <<element>>, r.set, OnlyErr(r.err))

CallSetClear(recv) ==
    LET r == SetClear(SetOf(recv))
    IN  SetCalled("Clear", recv, recv, <<>>, r.set, OnlyErr(r.err))

CallContains(recv, element) ==
    SetCalled("Contains", recv, recv, <<element>>, SetOf(recv),
              BoolAndErr(Contains(SetOf(recv), element)))

CallSetSize(recv) ==
    SetCalled("Size", recv, recv, <<>>, SetOf(recv), IntAndErr(SetSize(SetOf(recv))))

CallSetValues(recv, order) ==
    SetCalled("Values", recv, recv, <<>>, SetOf(recv),
              SeqAndErr(SetValues(SetOf(recv), order)))

CallSetIsEmpty(recv) ==
    SetCalled("IsEmpty", recv, recv, <<>>, SetOf(recv),
              BoolAndErr(SetIsEmpty(SetOf(recv))))

CallUnion(recv, arg) ==
    SetCalled("Union", recv, arg, <<>>, SetOf(recv),
              SetAndErr(Union(SetOf(recv), SetOf(arg))))

CallIntersection(recv, arg) ==
    SetCalled("Intersection", recv, arg, <<>>, SetOf(recv),
              SetAndErr(Intersection(SetOf(recv), SetOf(arg))))

CallDifference(recv, arg) ==
    SetCalled("Difference", recv, arg, <<>>, SetOf(recv),
              SetAndErr(Difference(SetOf(recv), SetOf(arg))))

CallSymmetricDifference(recv, arg) ==
    SetCalled("SymmetricDifference", recv, arg, <<>>, SetOf(recv),
              SetAndErr(SymmetricDifference(SetOf(recv), SetOf(arg))))

CallEqual(recv, arg) ==
    SetCalled("Equal", recv, arg, <<>>, SetOf(recv),
              BoolAndErr(Equal(SetOf(recv), SetOf(arg))))

CallSubset(recv, arg) ==
    SetCalled("Subset", recv, arg, <<>>, SetOf(recv),
              BoolAndErr(Subset(SetOf(recv), SetOf(arg))))

CallSuperset(recv, arg) ==
    SetCalled("Superset", recv, arg, <<>>, SetOf(recv),
              BoolAndErr(Superset(SetOf(recv), SetOf(arg))))

\* var a *Set[int] (nil) or a := NewSet[int]()
SetPointers == {NilSet, NewSet(<<>>)}

InitSpecSet ==
    /\ IdleEarlier
    /\ InitLists
    /\ InitBitMap
    /\ \E a \in SetPointers, b \in SetPointers : InitSets(a, b)
    /\ InitDictionary(NewDictionary)

NextSet ==
    \/ \E recv \in SetNames, elements \in AddArgs : CallSetAdd(recv, elements)
    \/ \E recv \in SetNames, element \in SetElems : CallSetRemove(recv, element)
    \/ \E recv \in SetNames : CallSetClear(recv)
    \/ \E recv \in SetNames, element \in SetElems : CallContains(recv, element)
    \/ \E recv \in SetNames : CallSetSize(recv)
    \/ \E recv \in SetNames :
          \E order \in Orders(SetOf(recv).elements) : CallSetValues(recv, order)
    \/ \E recv \in SetNames : CallSetIsEmpty(recv)
    \/ \E recv \in SetNames, arg \in SetNames : CallUnion(recv, arg)
    \/ \E recv \in SetNames, arg \in SetNames : CallIntersection(recv, arg)
    \/ \E recv \in SetNames, arg \in SetNames : CallDifference(recv, arg)
    \/ \E recv \in SetNames, arg \in SetNames : CallSymmetricDifference(recv, arg)
    \/ \E recv \in SetNames, arg \in SetNames : CallEqual(recv, arg)
    \/ \E recv \in SetNames, arg \in SetNames : CallSubset(recv, arg)
    \/ \E recv \in SetNames, arg \in SetNames : CallSuperset(recv, arg)

SpecSet == InitSpecSet /\ [][NextSet]_vars

(***************************************************************************)
(* SpecDict: any interleaving of calls on one *Dictionary variable, which  *)
(* is nil or a dictionary made by NewDictionary().  A panic ends the       *)
(* program: no call follows it.                                            *)
(***************************************************************************)
DictCalled(op, key, r) ==
    /\ ~dictRet.panic
    /\ dict' = r.dictionary
    /\ dictRet' = DictReturned(op, key, r)
    /\ UNCHANGED exceptDict

CallPut(key, value) == DictCalled("Put", key, Put(dict, key, value))

CallDictContains(key) == DictCalled("Contains", key, DictContains(dict, key))

CallGet(key) == DictCalled("Get", key, Get(dict, key))

CallDictRemove(key) == DictCalled("Remove", key, DictRemove(dict, key))

CallDictSize == DictCalled("Size", "a", DictSize(dict))

CallDictClear == DictCalled("Clear", "a", DictClear(dict))

\* var d *Dictionary[string, int] (nil) or d := NewDictionary[string, int]()
DictPointers == {NilDictionary, NewDictionary}

InitSpecDict ==
    /\ IdleEarlier
    /\ InitLists
    /\ InitBitMap
    /\ InitSets(NewSet(<<>>), NewSet(<<>>))
    /\ \E d \in DictPointers : InitDictionary(d)

NextDict ==
    \/ \E key \in DictKeys, value \in DictVals : CallPut(key, value)
    \/ \E key \in DictKeys : CallDictContains(key)
    \/ \E key \in DictKeys : CallGet(key)
    \/ \E key \in DictKeys : CallDictRemove(key)
    \/ CallDictSize
    \/ CallDictClear

SpecDict == InitSpecDict /\ [][NextDict]_vars

(***************************************************************************)
(* Properties of the heap.                                                 *)
(***************************************************************************)
\* s is in non-decreasing order under the comparator cmp
NonDecreasing(s, cmp) == \A i \in 1 .. Len(s) - 1 : Call(cmp, s[i], s[i + 1]) <= 0

\* s is in non-increasing order under the comparator cmp
NonIncreasing(s, cmp) == \A i \in 1 .. Len(s) - 1 : Call(cmp, s[i], s[i + 1]) >= 0

\* the multiset of the elements of s
BagOf(s) == [v \in Range(s) |-> Cardinality({i \in DOMAIN s : s[i] = v})]

\* C1. Heap property: after every Insert and every Remove, on a heap with a
\* total-order comparator, every index i with an existing child c in
\* {2i+1, 2i+2} has compare(elements[i], elements[c]) <= 0.
C1_HeapProperty ==
    \A i \in 0 .. Size(h) - 1 :
        \A c \in {2 * i + 1, 2 * i + 2} :
            c < Size(h) => Call(h.compare, At(h, i), At(h, c)) <= 0

\* a heap refilled after a complete drain, holding at least three elements
\* that are not all equal, just after a Remove sifted down
C1_Witness ==
    /\ phase = "drain"
    /\ inserts > Len(ins)
    /\ ret.op = "Remove"
    /\ ret.err = NoError
    /\ Size(h) >= 3
    /\ Cardinality(Range(h.elements)) >= 2

\* C2. Sorted extraction: inserting a multiset in any order into an empty
\* heap and then removing until the heap is empty returns the elements in
\* non-decreasing order under the comparator, and returns exactly the
\* inserted multiset.
C2_SortedExtraction ==
    phase = "drain" =>
        /\ NonDecreasing(out, h.compare)
        /\ Size(h) = 0 => BagOf(out) = BagOf(ins)

\* MaxSize elements, inserted in an order that is not the sorted one and not
\* all equal, have all been removed
C2_Witness ==
    /\ phase = "drain"
    /\ Size(h) = 0
    /\ Len(ins) = MaxSize
    /\ Len(out) = MaxSize
    /\ ins # out
    /\ Cardinality(Range(ins)) >= 2

\* C3. Max-heap orientation: the root of a heap built by
\* NewMaxHeap(intComparator) is a greatest element under intComparator, and
\* successive Removes return the elements from largest to smallest.
C3_MaxHeapOrientation ==
    ctor = "NewMaxHeap" =>
        /\ \A i \in 0 .. Size(h) - 1 :
               intComparator(At(h, i), At(h, 0)) <= 0
        /\ NonIncreasing(out, Func("intComparator"))

\* a max-heap with a root above some other element, after two Removes that
\* returned different elements
C3_Witness ==
    /\ ctor = "NewMaxHeap"
    /\ Len(out) >= 2
    /\ out[1] > out[2]
    /\ Size(h) >= 2
    /\ At(h, 0) > At(h, 1)

\* C4. Size accounting: Size() is the number of Insert calls minus the number
\* of Remove calls that returned no error; calls that fail or only inspect
\* leave it alone; it is never negative.
C4_SizeAccounting ==
    /\ Size(h) = inserts - removes
    /\ Size(h) >= 0

\* every inserted element has been removed and one more Remove has failed
C4_Witness ==
    /\ removes >= 2
    /\ inserts = removes
    /\ ret.op = "Remove"
    /\ ret.err # NoError

\* C5. Empty-on-empty: on an empty heap, fresh or drained, Remove and Peek
\* return an error and change neither the elements nor the size, and an Insert
\* that follows works normally.
C5_EmptyOnEmpty ==
    [][/\ (Size(h) = 0 /\ (CallRemove \/ CallPeek)) =>
              /\ ret'.err # NoError
              /\ h' = h
              /\ Size(h') = 0
       /\ \A element \in Vals :
              (Size(h) = 0 /\ CallInsert(element)) =>
                  Elements(h') = <<element>>]_vars

\* a heap that was filled and completely drained has just refused a call
C5_Witness ==
    /\ inserts >= 2
    /\ removes = inserts
    /\ Size(h) = 0
    /\ ret.op \in {"Remove", "Peek"}
    /\ ret.err = ErrEmptyHeap

\* C6. Idempotent Peek: on a non-empty heap a Peek that directly follows a
\* Peek returns the same element, elements[0], and leaves the size and the
\* whole element sequence unchanged.
C6_IdempotentPeek ==
    [][(Size(h) > 0 /\ peeks >= 1 /\ CallPeek) =>
           /\ ret' = ret
           /\ ret'.err = NoError
           /\ ret'.val = At(h, 0)
           /\ h' = h
           /\ Size(h') = Size(h)]_vars

\* two Peeks in a row on a heap whose root differs from its last element
C6_Witness ==
    /\ peeks = 2
    /\ ret.op = "Peek"
    /\ Size(h) >= 2
    /\ ret.val = At(h, 0)
    /\ At(h, 0) # At(h, Size(h) - 1)

\* C7. Concrete min-heap scenario: inserting 44, 29, 58, 2, 98, 11, 65, 3, 68,
\* 99 one at a time into an empty min-heap gives after each insertion exactly
\* the layout the test lists.
C7_MinHeapScenario ==
    (ctor = "NewMinHeap" /\ removes = 0 /\ fed >= 1) =>
        Elements(h) = orderExpectedAfterInsertMin[fed]

\* all ten elements are in the min-heap
C7_Witness ==
    /\ ctor = "NewMinHeap"
    /\ removes = 0
    /\ fed = Len(insertionSequence)
    /\ Elements(h) = <<2, 3, 11, 29, 98, 58, 65, 44, 68, 99>>

\* C8. Concrete max-heap scenario: the same ten insertions into an empty
\* NewMaxHeap(intComparator) give after each Insert the layouts of the test,
\* and each of the ten Removes that follow succeeds and leaves exactly the
\* layout the test lists.
C8_MaxHeapScenario ==
    ctor = "NewMaxHeap" =>
        /\ (removes = 0 /\ fed >= 1) =>
               Elements(h) = orderExpectedAfterInsertMax[fed]
        /\ (fed = Len(insertionSequence) /\ Len(out) = removes /\ removes >= 1) =>
               /\ Elements(h) = orderExpectedAfterDelete[removes]
               /\ (ret.op = "Remove" /\ ret.err # NoError) =>
                      removes = Len(insertionSequence)

\* the ten elements were inserted and then all removed, largest first
C8_Witness ==
    /\ ctor = "NewMaxHeap"
    /\ fed = Len(insertionSequence)
    /\ ret.op = "Remove"
    /\ ret.err = NoError
    /\ out = <<99, 98, 68, 65, 58, 44, 29, 11, 3, 2>>
    /\ Elements(h) = <<>>

(***************************************************************************)
(* Properties of the priority queue.                                       *)
(***************************************************************************)
\* the step removed from the queue an item with the returned value whose
\* priority is best among the items that were in the queue, where
\* better(p, q) says that priority p is at least as good as q
DequeuedBest(better(_, _)) ==
    /\ pqRet'.err = NoError
    /\ \E i \in DOMAIN pq.heap.elements :
           LET item == pq.heap.elements[i]
           IN  /\ item.value = pqRet'.val
               /\ \A j \in DOMAIN pq.heap.elements :
                      better(item.priority, pq.heap.elements[j].priority)
               /\ BagOf(Append(pq'.heap.elements, item)) = BagOf(pq.heap.elements)

AtMost(p, q) == p <= q

AtLeast(p, q) == p >= q

\* C9. Min-priority queue ordering: in any interleaving of Enqueue and
\* Dequeue on a queue built by NewMinPriorityQueue, a Dequeue of a non-empty
\* queue returns the value that was enqueued with the minimum of the
\* priorities in the queue.
C9_MinQueueOrdering ==
    [][(pqCtor = "NewMinPriorityQueue" /\ ~PQIsEmpty(pq) /\ CallDequeue) =>
           DequeuedBest(AtMost)]_vars

\* C10. Max-priority queue ordering: in any interleaving of Enqueue and
\* Dequeue on a queue built by NewMaxPriorityQueue, a Dequeue of a non-empty
\* queue returns a value whose priority is the maximum of the priorities in
\* the queue.
C10_MaxQueueOrdering ==
    [][(pqCtor = "NewMaxPriorityQueue" /\ ~PQIsEmpty(pq) /\ CallDequeue) =>
           DequeuedBest(AtLeast)]_vars


(***************************************************************************)
(* Properties of the priority queue tests.                                 *)
(***************************************************************************)
\* the three Enqueue calls of TestPriorityQueueEnqueueDequeueMin were made on
\* a min queue and only Dequeues (and Peeks) followed the last of them
MinScenarioRuns ==
    /\ pqCtor = "NewMinPriorityQueue"
    /\ pqScript = "TestPriorityQueueEnqueueDequeueMin"
    /\ pqFed = 3
    /\ PQSize(pq) + Len(pqOut) = 3

\* C11. Min-queue scenario: on a min queue, after Enqueue("low", 10),
\* Enqueue("medium", 5), Enqueue("high", 1), the Dequeues return "high",
\* "medium", "low" in that order without error, the queue is then empty, and
\* the fourth Dequeue returns an error.
C11_MinQueueScenario ==
    MinScenarioRuns =>
        LET expected == <<"high", "medium", "low">>
            n == Len(pqOut)
        IN  /\ pqOut = SubSeq(expected, 1, n)
            /\ n < 3 => /\ PQDequeue(pq).err = NoError
                        /\ PQDequeue(pq).value = expected[n + 1]
            /\ n = 3 => /\ PQIsEmpty(pq)
                        /\ PQDequeue(pq).err # NoError
            /\ (pqRet.op = "Dequeue" /\ pqRet.err # NoError) => n = 3

\* the fourth Dequeue of the scenario has failed
C11_Witness ==
    /\ MinScenarioRuns
    /\ pqOut = <<"high", "medium", "low">>
    /\ pqRet.op = "Dequeue"
    /\ pqRet.err # NoError

\* the Dequeue of this step returned the best priority of the queue in the
\* orientation of the constructor
DequeuedInOrientation ==
    IF pqCtor = "NewMinPriorityQueue"
    THEN DequeuedBest(AtMost)
    ELSE DequeuedBest(AtLeast)

\* C12. Clear preserves orientation: after Clear the Size is 0, IsEmpty is
\* true and Dequeue and Peek fail with the empty error; the queue is the one
\* its constructor returns, so that no element of before the Clear is ever
\* returned, and the values enqueued afterwards are dequeued min-first on a
\* queue built by NewMinPriorityQueue and max-first on one built by
\* NewMaxPriorityQueue, as before the Clear.
C12_ClearPreservesOrientation ==
    [][/\ CallClear =>
              /\ PQSize(pq') = 0
              /\ PQIsEmpty(pq')
              /\ PQDequeue(pq').err = ErrEmptyHeap
              /\ PQPeek(pq').err = ErrEmptyHeap
              /\ pq' = NewPriorityQueue(pqCtor)
       /\ Comparator(pq'.heap) = Comparator(pq.heap)
       /\ (~PQIsEmpty(pq) /\ CallDequeue) => DequeuedInOrientation]_vars

\* a max queue was cleared while it held an element, two values were
\* enqueued and one of them dequeued
C12_Witness ==
    /\ pqCtor = "NewMaxPriorityQueue"
    /\ pqCleared >= 1
    /\ pqRet.op = "Dequeue"
    /\ pqRet.err = NoError
    /\ PQSize(pq) >= 1

(***************************************************************************)
(* Properties of the priority queue.                                       *)
(***************************************************************************)
\* C13. Empty-queue error propagation: a Dequeue or a Peek of an empty
\* priority queue (new, drained or cleared) returns the zero value of T and
\* the error the heap's Remove or Peek returns, and leaves the queue empty
\* and usable: an Enqueue that follows stores its value.
C13_EmptyQueueErrors ==
    [][/\ (PQIsEmpty(pq) /\ CallDequeue) =>
              /\ pqRet'.val = ZeroT
              /\ pqRet'.err = Remove(pq.heap).err
              /\ pqRet'.err = ErrEmptyHeap
              /\ pq' = pq
       /\ (PQIsEmpty(pq) /\ CallPQPeek) =>
              /\ pqRet'.val = ZeroT
              /\ pqRet'.err = Peek(pq.heap).err
              /\ pqRet'.err = ErrEmptyHeap
              /\ pq' = pq
       /\ \A value \in PQValues, priority \in Priorities :
              (PQIsEmpty(pq) /\ pqRet.err # NoError
               /\ CallEnqueue(value, priority)) =>
                  /\ Elements(pq'.heap) = <<prioritized(value, priority)>>
                  /\ PQPeek(pq').value = value
                  /\ PQPeek(pq').err = NoError]_vars

\* a queue that was cleared, refilled and drained has failed a Dequeue
C13_Witness ==
    /\ pqCleared >= 1
    /\ Len(pqOut) >= 2
    /\ PQIsEmpty(pq)
    /\ pqRet = Returned("Dequeue", ZeroT, ErrEmptyHeap)

\* C14. Peek of the priority queue: on a non-empty queue Peek returns,
\* without error, the value the Dequeue that immediately follows returns, and
\* changes neither the Size nor the queue.
C14_PeekThenDequeue ==
    [][/\ (~PQIsEmpty(pq) /\ CallPQPeek) =>
              /\ pq' = pq
              /\ PQSize(pq') = PQSize(pq)
              /\ pqRet'.err = NoError
              /\ pqRet'.val = PQDequeue(pq').value
       /\ (pqRet.op = "Peek" /\ pqRet.err = NoError /\ CallDequeue) =>
              /\ pqRet'.err = NoError
              /\ pqRet'.val = pqRet.val]_vars

\* a Peek has returned the value at the root of a queue that holds another
\* value below it
C14_Witness ==
    /\ pqRet.op = "Peek"
    /\ pqRet.err = NoError
    /\ PQSize(pq) >= 2
    /\ pqRet.val = pq.heap.elements[1].value
    /\ \E i \in 2 .. PQSize(pq) : pq.heap.elements[i].value # pqRet.val

\* C16. No external mutation path: the element sequence of the heap changes
\* only through Insert and Remove; a caller writing into the sequence
\* Elements() returned does not change the elements the heap stores.
C16_NoExternalMutation ==
    [][Elements(bh') # Elements(bh) =>
           \/ \E element \in Vals : BadInsert(element)
           \/ BadRemove]_vars

(***************************************************************************)
(* Properties of the heap under an arbitrary comparator.                   *)
(***************************************************************************)
\* C15. Robustness to a bad comparator: whatever the comparator, every
\* element index read or written during Insert, Remove and Peek, upHeap and
\* downHeap included, lies in [0, len(elements)).
C15_IndexesInRange == \A a \in touched : InRange(a)

\* a Remove on a heap whose comparator says that an element differs from
\* itself has sifted down two levels
C15_Witness ==
    /\ bhRet = "Remove"
    /\ \E e \in Compared(bh.compare.table) : bh.compare.table[<<e, e>>] # 0
    /\ \E a \in touched : a.idx = 3
    /\ \E a \in touched : a.idx = 4

(***************************************************************************)
(* Properties of the queue.                                                *)
(***************************************************************************)
\* C17. FIFO order of the queue: in any interleaving of Enqueue and Dequeue
\* the k-th successful Dequeue returns the k-th element enqueued; Front
\* returns the element the next Dequeue returns, without removing it; and
\* Size is the number of Enqueues minus the number of successful Dequeues
\* since the last Clear.
C17_FifoOrder ==
    [][/\ QSize(fifo') = Len(qEnq') - Len(qDeq')
       /\ (~QIsEmpty(fifo) /\ CallQDequeue) =>
              /\ qRet'.err = NoError
              /\ qRet'.val = qEnq[Len(qDeq) + 1]
       /\ (~QIsEmpty(fifo) /\ CallQFront) =>
              /\ qRet'.err = NoError
              /\ qRet'.val = qEnq[Len(qDeq) + 1]
              /\ fifo' = fifo
       /\ (qRet.op = "Front" /\ qRet.err = NoError /\ CallQDequeue) =>
              /\ qRet'.err = NoError
              /\ qRet'.val = qRet.val]_vars

\* the second Dequeue has returned the second of at least three elements,
\* which differs from the first and from the third
C17_Witness ==
    /\ qRet.op = "Dequeue"
    /\ qRet.err = NoError
    /\ Len(qDeq) = 2
    /\ Len(qEnq) >= 3
    /\ qRet.val = qEnq[2]
    /\ qEnq[1] # qEnq[2]
    /\ qEnq[3] # qEnq[2]

\* C18. Empty queue: a Dequeue or a Front of an empty queue (new, drained or
\* cleared) returns the zero value of T and the error "empty queue", and
\* leaves the queue empty and unchanged.
C18_EmptyQueue ==
    [][(QIsEmpty(fifo) /\ (CallQDequeue \/ CallQFront)) =>
           /\ qRet'.val = Zero
           /\ qRet'.err = "empty queue"
           /\ fifo' = fifo
           /\ QIsEmpty(fifo')
           /\ QSize(fifo') = 0]_vars

\* a Front has failed on a queue that was filled and drained
C18_Witness ==
    /\ Len(qEnq) >= 2
    /\ Len(qDeq) = Len(qEnq)
    /\ qRet = Returned("Front", Zero, ErrEmptyQueue)

(***************************************************************************)
(* Properties of the stack.                                                *)
(***************************************************************************)
\* C19. LIFO order of the stack: in any interleaving of Push and Pop every
\* successful Pop returns the most recently pushed element not yet popped
\* and decreases the Size by one; Top returns that element and changes
\* nothing.
C19_LifoOrder ==
    [][/\ (~StackIsEmpty(st) /\ CallPop) =>
              /\ stRet'.err = NoError
              /\ live # {}
              /\ stRet'.val = Newest(live).value
              /\ StackSize(st') = StackSize(st) - 1
       /\ (~StackIsEmpty(st) /\ CallTop) =>
              /\ stRet'.err = NoError
              /\ live # {}
              /\ stRet'.val = Newest(live).value
              /\ st' = st
       /\ StackSize(st') = Cardinality(live')]_vars

\* a Pop has returned a value while the newest element left, which holds
\* another value, is older than an element that was removed before
C19_Witness ==
    /\ stRet.op = "Pop"
    /\ stRet.err = NoError
    /\ pushes - Cardinality(live) >= 2
    /\ live # {}
    /\ Newest(live).stamp < pushes - 1
    /\ Newest(live).value # stRet.val

\* C20. Empty stack: a Pop or a Top of an empty stack (new, drained or
\* cleared) returns the zero value of T and the error "stack empty", and
\* leaves the stack empty and unchanged.
C20_EmptyStack ==
    [][(StackIsEmpty(st) /\ (CallPop \/ CallTop)) =>
           /\ stRet'.val = Zero
           /\ stRet'.err = "stack empty"
           /\ st' = st
           /\ StackIsEmpty(st')
           /\ StackSize(st') = 0]_vars

\* a Top has failed on a stack that was filled and then cleared or drained
C20_Witness ==
    /\ pushes >= 2
    /\ live = {}
    /\ stRet = Returned("Top", Zero, ErrStackEmpty)

(***************************************************************************)
(* Properties of the linked lists.                                         *)
(***************************************************************************)
\* the addresses of the nodes met from Head() by Next(), at most fuel of them
RECURSIVE ChainFrom(_, _, _)
ChainFrom(l, node, fuel) ==
    IF node = Nil \/ fuel = 0
    THEN <<>>
    ELSE <<node>> \o ChainFrom(l, l.mem[node].next, fuel - 1)

Chain(l) == ChainFrom(l, l.head, MaxList + 2)

\* the values read from Head() by Next()
Values(l) == [i \in 1 .. Len(Chain(l)) |-> l.mem[Chain(l)[i]].data]

InsertedAt(seq, index, data) ==
    SubSeq(seq, 1, index) \o <<data>> \o SubSeq(seq, index + 1, Len(seq))

Reversed(seq) == [i \in 1 .. Len(seq) |-> seq[Len(seq) + 1 - i]]

RECURSIVE Without(_, _)
Without(seq, data) ==
    IF seq = <<>> THEN <<>>
    ELSE IF Head(seq) = data THEN Without(Tail(seq), data)
    ELSE <<Head(seq)>> \o Without(Tail(seq), data)

\* InsertAt(index, data), returning err, took the list from before to after
InsertAtDone(before, after, err, index, data) ==
    IF index < 0 \/ index > ListSize(before)
    THEN /\ err = "index out of bounds"
         /\ Chain(after) = Chain(before)
         /\ Values(after) = Values(before)
         /\ after.head = before.head
         /\ after.tail = before.tail
         /\ ListSize(after) = ListSize(before)
    ELSE /\ err = NoError
         /\ Values(after) = InsertedAt(Values(before), index, data)
         /\ ListSize(after) = ListSize(before) + 1
         /\ index = 0 =>
                /\ after.head = Chain(after)[1]
                /\ after.mem[after.head].data = data
         /\ index = ListSize(before) =>
                /\ after.tail = Chain(after)[Len(Chain(after))]
                /\ after.mem[after.tail].data = data
                /\ after.mem[after.tail].next = Nil

\* C21. InsertAt bounds: in both lists, InsertAt(index, data) with index < 0
\* or index > Size() returns "index out of bounds" and leaves the nodes,
\* head, tail and size unchanged; with 0 <= index <= Size() it returns nil
\* and the sequence is the old one with data inserted at position index,
\* index 0 becoming the head and index Size() the tail.
C21_InsertAtBounds ==
    [][(lRet'.op = "InsertAt" /\ CallInsertAt(lRet'.index, lRet'.data)) =>
           /\ InsertAtDone(gl, gl', lRet'.gErr, lRet'.index, lRet'.data)
           /\ InsertAtDone(al, al', lRet'.aErr, lRet'.index, lRet'.data)]_vars

\* an InsertAt one past the end of a list of two or more has failed
C21_Witness ==
    /\ lRet.op = "InsertAt"
    /\ lRet.gErr = ErrIndexOutOfBounds
    /\ lRet.aErr = ErrIndexOutOfBounds
    /\ lRet.index = lRet.before + 1
    /\ lRet.before >= 2
    /\ ListSize(gl) = lRet.before

\* Reverse took the list from before to after
ReverseDone(before, after) ==
    /\ Values(after) = Reversed(Values(before))
    /\ Chain(after) = Reversed(Chain(before))
    /\ ListSize(after) = ListSize(before)
    /\ ListSize(before) >= 1 =>
           /\ after.tail = before.head
           /\ after.mem[after.tail].next = Nil
           /\ after.head = before.tail
    /\ ListSize(before) <= 1 => after = before

\* C22. Reverse: in both lists, after Reverse() the values read from Head()
\* by Next() are the reverse of those before, the old head node is the new
\* tail with Next() == nil, the old tail node is the new head, and Size() is
\* unchanged; on an empty or single-element list Reverse changes nothing.
C22_Reverse ==
    [][(lRet'.op = "Reverse" /\ CallReverse) =>
           ReverseDone(gl, gl') /\ ReverseDone(al, al')]_vars

\* a list of three or more values that is not its own reverse was reversed
C22_Witness ==
    /\ lRet.op = "Reverse"
    /\ ListSize(gl) >= 3
    /\ Values(gl) # Reversed(Values(gl))
    /\ Values(al) = Values(gl)

\* RemoveAll(data) took the list from before to after
RemoveAllDone(before, after, data) ==
    LET matches == Cardinality({i \in DOMAIN Values(before) :
                                   Values(before)[i] = data})
    IN  /\ Values(after) = Without(Values(before), data)
        /\ ListSize(after) = ListSize(before) - matches
        /\ matches = 0 => after = before

\* C23. RemoveAll: in both lists, RemoveAll(data) removes every node whose
\* value equals data, runs of matches and matches at the head and at the
\* tail included, keeps the other values in their order, decreases Size()
\* by the number of matches, and leaves the list unchanged when nothing
\* matches.
C23_RemoveAll ==
    [][(lRet'.op = "RemoveAll" /\ CallRemoveAll(lRet'.data)) =>
           /\ RemoveAllDone(gl, gl', lRet'.data)
           /\ RemoveAllDone(al, al', lRet'.data)]_vars

\* two matches were removed from a list of three: one value is left
C23_Witness ==
    /\ lRet.op = "RemoveAll"
    /\ lRet.before = 3
    /\ ListSize(gl) = 1
    /\ Values(gl) # <<lRet.data>>
    /\ Values(al) = Values(gl)

(***************************************************************************)
(* Properties of the bitmap.                                               *)
(***************************************************************************)
\* the call that was just made took a position
TookPosition == bmRet'.op \in {"On", "Off", "Toggle", "IsOn"}

\* the step is the call that bmRet' records
BitmapCalled ==
    \/ bmRet'.op = "On" /\ CallOn(bmRet'.pos)
    \/ bmRet'.op = "Off" /\ CallOff(bmRet'.pos)
    \/ bmRet'.op = "Toggle" /\ CallToggle(bmRet'.pos)
    \/ bmRet'.op = "IsOn" /\ CallIsOn(bmRet'.pos)

\* C24: On, Off, Toggle and IsOn with a position of 32 or more return
\* "invalid position" and leave GetMap() as it was; with a position in
\* 0..31 they return no error.
C24_InvalidPosition ==
    [][(TookPosition /\ BitmapCalled) =>
          IF bmRet'.pos \in 0 .. 31
          THEN bmRet'.err = NoError
          ELSE /\ bmRet'.err = "invalid position"
               /\ bmRet'.err = ErrInvalidPosition
               /\ GetMap(bm') = GetMap(bm)]_vars

\* Toggle(32) was refused on a bitmap with bits on
C24_Witness ==
    /\ bmRet.op = "Toggle"
    /\ bmRet.pos = 32
    /\ bmRet.err = ErrInvalidPosition
    /\ {0, 31} \subseteq GetMap(bm)

\* the bits other than p are the same in the two bitmaps
OtherBitsSame(b1, b2, p) == GetMap(b1) \ {p} = GetMap(b2) \ {p}

\* C25: with p in 0..31, On(p) makes IsOn(p) true, Off(p) makes it false
\* and Toggle(p) flips it; each leaves the other 31 bits as they were; a
\* second On(p) or Off(p) changes nothing and a second Toggle(p) restores
\* the bitmap.
C25_SingleBit ==
    [][(bmRet'.op \in {"On", "Off", "Toggle"} /\ BitmapCalled
          /\ bmRet'.pos \in 0 .. 31) =>
          LET p == bmRet'.pos
          IN  /\ OtherBitsSame(bm', bm, p)
              /\ IsOn(bm', p).err = NoError
              /\ bmRet'.op = "On" =>
                    /\ IsOn(bm', p).val
                    /\ On(bm', p).bitmap = bm'
              /\ bmRet'.op = "Off" =>
                    /\ ~IsOn(bm', p).val
                    /\ Off(bm', p).bitmap = bm'
              /\ bmRet'.op = "Toggle" =>
                    /\ IsOn(bm', p).val = ~IsOn(bm, p).val
                    /\ Toggle(bm', p).bitmap = bm]_vars

\* Toggle(31) turned bit 31 off and left bits 0 and 30 on
C25_Witness ==
    /\ bmRet.op = "Toggle"
    /\ bmRet.pos = 31
    /\ bmRet.err = NoError
    /\ GetMap(bm) = {0, 30}

(***************************************************************************)
(* Properties of the set.                                                  *)
(***************************************************************************)
\* the step is the call that setRet' records
SetMethodCalled ==
    LET op == setRet'.op
        recv == setRet'.recv
        arg == setRet'.arg
        elems == setRet'.elems
    IN  \/ op = "Add" /\ CallSetAdd(recv, elems)
        \/ op = "Remove" /\ CallSetRemove(recv, elems[1])
        \/ op = "Clear" /\ CallSetClear(recv)
        \/ op = "Contains" /\ CallContains(recv, elems[1])
        \/ op = "Size" /\ CallSetSize(recv)
        \/ op = "Values" /\ CallSetValues(recv, setRet'.seq)
        \/ op = "IsEmpty" /\ CallSetIsEmpty(recv)
        \/ op = "Union" /\ CallUnion(recv, arg)
        \/ op = "Intersection" /\ CallIntersection(recv, arg)
        \/ op = "Difference" /\ CallDifference(recv, arg)
        \/ op = "SymmetricDifference" /\ CallSymmetricDifference(recv, arg)
        \/ op = "Equal" /\ CallEqual(recv, arg)
        \/ op = "Subset" /\ CallSubset(recv, arg)
        \/ op = "Superset" /\ CallSuperset(recv, arg)

\* the methods that take another set
BinaryMethods ==
    {"Union", "Intersection", "Difference", "SymmetricDifference", "Equal",
     "Subset", "Superset"}

\* C26: Add, Remove, Contains, Size, Values, Clear, IsEmpty, Union,
\* Intersection, Difference, SymmetricDifference, Equal, Subset and Superset
\* called on a nil receiver return the error "nil set"; the binary ones do
\* so too when their argument is nil.  The call returns, and neither set
\* changes.
C26_NilSet ==
    [][(SetMethodCalled /\ (SetOf(setRet'.recv).nil \/ SetOf(setRet'.arg).nil)) =>
          /\ setRet'.err = "nil set"
          /\ setRet'.err = ErrNilSet
          /\ sa' = sa
          /\ sb' = sb]_vars

\* Superset was called on a set with elements and given nil
C26_Witness ==
    /\ setRet.op = "Superset"
    /\ ~SetOf(setRet.recv).nil
    /\ SetOf(setRet.recv).elements # {}
    /\ SetOf(setRet.arg).nil
    /\ setRet.err = ErrNilSet

\* C27: on sets a and b that are not nil, Union, Intersection, Difference
\* and SymmetricDifference return a set holding exactly the union, the
\* intersection, a minus b, and the symmetric difference, and leave a and b
\* as they were; a.Superset(b) is b.Subset(a); a.Equal(b) is a.Subset(b)
\* and b.Subset(a).
C27_SetAlgebra ==
    [][(setRet'.op \in BinaryMethods /\ SetMethodCalled
          /\ ~SetOf(setRet'.recv).nil /\ ~SetOf(setRet'.arg).nil) =>
          LET a == SetOf(setRet'.recv)
              b == SetOf(setRet'.arg)
              op == setRet'.op
              result == setRet'.set
          IN  /\ setRet'.err = NoError
              /\ sa' = sa
              /\ sb' = sb
              /\ op \in {"Union", "Intersection", "Difference",
                          "SymmetricDifference"} => ~result.nil
              /\ op = "Union" => result.elements = a.elements \cup b.elements
              /\ op = "Intersection" =>
                    result.elements = a.elements \cap b.elements
              /\ op = "Difference" => result.elements = a.elements \ b.elements
              /\ op = "SymmetricDifference" =>
                    result.elements = (a.elements \ b.elements)
                                         \cup (b.elements \ a.elements)
              /\ op = "Subset" => setRet'.bool = (a.elements \subseteq b.elements)
              /\ op = "Superset" => setRet'.bool = Subset(b, a).val
              /\ op = "Equal" =>
                    setRet'.bool = (Subset(a, b).val /\ Subset(b, a).val)]_vars

\* the symmetric difference of {1, 2} and {2, 3} was taken
C27_Witness ==
    /\ setRet.op = "SymmetricDifference"
    /\ setRet.recv = "a"
    /\ setRet.arg = "b"
    /\ sa.elements = {1, 2}
    /\ sb.elements = {2, 3}
    /\ setRet.set.elements = {1, 3}

(***************************************************************************)
(* Properties of the dictionary.                                           *)
(***************************************************************************)
\* C28: a Get(key) on a nil *Dictionary returns, and returns an error: it
\* does not fault.
C28_NilDictionaryGet ==
    [][(dict.nil /\ dictRet'.op = "Get" /\ CallGet(dictRet'.key)) =>
          /\ ~dictRet'.panic
          /\ dictRet'.err # NoError]_vars

(***************************************************************************)
(* Properties of the sifts, on elements of equal key.                      *)
(***************************************************************************)
\* the Go indexes from i up to the root: i, its parent, ..., 0
RECURSIVE PathUp(_)
PathUp(i) == IF i = 0 THEN <<0>> ELSE <<i>> \o PathUp((i - 1) \div 2)

\* the layout after the element at the start of path has moved to its end
\* and every element on the way has moved one place back along the path
MovedAlong(layout, path) ==
    [x \in DOMAIN layout |->
        IF \E j \in 1 .. Len(path) - 1 : path[j] + 1 = x
        THEN LET j == CHOOSE j \in 1 .. Len(path) - 1 : path[j] + 1 = x
             IN  layout[path[j + 1] + 1]
        ELSE IF path[Len(path)] + 1 = x THEN layout[path[1] + 1]
        ELSE layout[x]]

\* Insert(element) moved the new element up past the ancestors that
\* passed(element, ancestor) holds of, and stopped at the root or below an
\* ancestor that stops(element, ancestor) holds of
SiftedUp(before, after, element, passed(_, _), stops(_, _)) ==
    LET grown == Append(before.elements, element)
        path == PathUp(Len(grown) - 1)
    IN  \E k \in 0 .. Len(path) - 1 :
           /\ after.elements = MovedAlong(grown, SubSeq(path, 1, k + 1))
           /\ \A j \in 1 .. k : passed(element, grown[path[j + 1] + 1])
           /\ k + 1 < Len(path) => stops(element, grown[path[k + 2] + 1])

StrictlyLess(a, b) == Call(bh.compare, a, b) < 0

AtMostEqual(a, b) == Call(bh.compare, a, b) <= 0

NotLess(a, b) == Call(bh.compare, a, b) >= 0

StrictlyGreater(a, b) == Call(bh.compare, a, b) > 0

\* the step is the Insert that bhRet' records
TieInserted == bhRet'.op = "Insert" /\ TieInsert(bhRet'.element)

\* C29, as claimed: the new element is swapped with its parent only while
\* it compares strictly less than the parent, and stops at the root or
\* when its parent compares <= it; an element inserted with a key equal
\* to its parent's stays below the parent.
C29_UpHeapStrict ==
    [][TieInserted =>
          SiftedUp(bh, bh', bhRet'.element, StrictlyLess, NotLess)]_vars

\* C29, as amended: the new element is swapped with its parent while it
\* compares less than or equal to the parent, and stops at the root or
\* when it compares strictly greater than its parent; an element inserted
\* with a key equal to its parent's ends above that parent.
C29_UpHeapStopsAboveEqual ==
    [][TieInserted =>
          SiftedUp(bh, bh', bhRet'.element, AtMostEqual, StrictlyGreater)]_vars

\* an element was inserted below an element of equal priority and now
\* stands above it, at the root
C29_Witness ==
    /\ bhRet.op = "Insert"
    /\ Size(bh) = 2
    /\ At(bh, 0) = bhRet.element
    /\ At(bh, 1) # bhRet.element
    /\ At(bh, 1).priority = bhRet.element.priority

\* the paths from Go index i down the tree of n elements
RECURSIVE PathsDown(_, _)
PathsDown(i, n) ==
    IF i >= n
    THEN {}
    ELSE {<<i>>} \cup {<<i>> \o path :
                          path \in PathsDown(2 * i + 1, n) \cup PathsDown(2 * i + 2, n)}

\* Remove moved the last element to the root and then down path: at each
\* step to the child c of i, c compares strictly less than the element,
\* no greater than its sibling, and is the left child when it compares
\* equal to its sibling; where the element stops no child compares
\* strictly less than it
SiftedDown(before, after) ==
    LET n == Size(before) - 1
        cut == <<At(before, n)>> \o SubSeq(before.elements, 2, n)
        element == At(before, n)
    IN  IF n = 0
        THEN after.elements = <<>>
        ELSE \E path \in PathsDown(0, n) :
               /\ after.elements = MovedAlong(cut, path)
               /\ \A j \in 1 .. Len(path) - 1 :
                     LET i == path[j]
                         c == path[j + 1]
                         sibling == IF c = 2 * i + 1 THEN 2 * i + 2 ELSE 2 * i + 1
                     IN  /\ StrictlyLess(cut[c + 1], element)
                         /\ sibling < n =>
                               /\ AtMostEqual(cut[c + 1], cut[sibling + 1])
                               /\ NotLess(cut[c + 1], cut[sibling + 1]) =>
                                     c = 2 * i + 1
               /\ \A c \in {2 * path[Len(path)] + 1, 2 * path[Len(path)] + 2} :
                     c < n => ~StrictlyLess(cut[c + 1], element)

\* C30: at each step of sift-down the element is swapped with the child
\* that compares smallest of the two, and only if that child compares
\* strictly less than it; when the children compare equal and both are
\* smaller, the left child is swapped; sift-down stops when no child
\* compares strictly smaller.
C30_DownHeapChoice ==
    [][(bhRet'.op = "Remove" /\ TieRemove) => SiftedDown(bh, bh')]_vars

\* Remove moved the last element to the root over two children of equal
\* priority, both smaller than it, and it went to the left
C30_Witness ==
    /\ bhRet.op = "Remove"
    /\ Size(bh) = 3
    /\ At(bh, 1) = bhRet.last
    /\ At(bh, 0) # At(bh, 2)
    /\ At(bh, 0).priority = At(bh, 2).priority
    /\ At(bh, 0).priority < bhRet.last.priority

\* the step is the Remove that bhRet' records
TieRemoved == bhRet'.op = "Remove" /\ TieRemove

\* C31: on a heap that is not empty, Remove() returns the element that was
\* at index 0, which is what Peek() returned just before; that element
\* compares <= every element left in the heap; the last element of the old
\* sequence is moved to the root and from there down some path; the
\* sequence shrinks by one, and a heap of one element becomes empty.
C31_RemoveReturnsRoot ==
    [][TieRemoved =>
          LET n == Size(bh) - 1
              cut == <<At(bh, n)>> \o SubSeq(bh.elements, 2, n)
          IN  /\ bhRet'.element = At(bh, 0)
              /\ Peek(bh).err = NoError
              /\ bhRet'.element = Peek(bh).element
              /\ \A i \in 0 .. Size(bh') - 1 : AtMostEqual(bhRet'.element, At(bh', i))
              /\ Size(bh') = Size(bh) - 1
              /\ Size(bh) = 1 => bh'.elements = <<>>
              /\ n > 0 => \E path \in PathsDown(0, n) :
                             bh'.elements = MovedAlong(cut, path)]_vars

\* Remove returned the root of a heap of four while the element moved to
\* the root was another one, which went down
C31_Witness ==
    /\ bhRet.op = "Remove"
    /\ Size(bh) = 3
    /\ bhRet.element # bhRet.last
    /\ bhRet.element.priority < bhRet.last.priority
    /\ At(bh, 0) # bhRet.last

(***************************************************************************)
(* Properties of the comparators of the priority queue.                    *)
(***************************************************************************)
\* C32: for every two priorities of the machine integer width, those near
\* the minimum and the maximum included, the comparator of the min queue
\* is negative exactly when a.priority < b.priority and the comparator of
\* the max queue is negative exactly when a.priority > b.priority.  It is
\* stated of the comparator the queue holds and of every two items that
\* are in the queue.
C32_ComparatorSign ==
    \A i \in DOMAIN pq.heap.elements, j \in DOMAIN pq.heap.elements :
        LET a == pq.heap.elements[i]
            b == pq.heap.elements[j]
        IN  (Call(Comparator(pq.heap), a, b) < 0) <=>
                IF pqCtor = "NewMinPriorityQueue"
                THEN a.priority < b.priority
                ELSE a.priority > b.priority

(***************************************************************************)
(* Properties of the constructors.                                         *)
(***************************************************************************)
\* C33: after every call of any sequence of Insert, Remove and Peek, a
\* heap built by NewMaxHeap(cmp) and one built by NewGenericHeap(cmp') with
\* cmp'(a, b) = cmp(b, a) have the same layout and have returned the same
\* results, and so have NewMinHeap(cmp) and NewGenericHeap(cmp), for every
\* comparator cmp.
C33_SingleEngine ==
    /\ Elements(h) = Elements(bh)
    /\ ret = bhRet

\* a heap built by NewMaxHeap with a comparator that orders 1 before 2 has
\* had a Remove and holds 1 below 2
C33_Witness ==
    /\ ctor = "NewMaxHeap"
    /\ ret.op = "Remove"
    /\ ret.err = NoError
    /\ Comparator(h).table[<<1, 2>>] = -1
    /\ Comparator(h).table[<<2, 1>>] = 1
    /\ Size(h) >= 3
    /\ At(h, 0) = 2
    /\ 1 \in Range(Elements(h))

(***************************************************************************)
(* Properties of the priority queue on equal priorities.                   *)
(***************************************************************************)
\* the priority queue whose heap is hp
QueueOf(hp) == [heap |-> hp]

\* C34: the priority queue is not stable.  Whenever a value is enqueued on
\* a min queue that holds one other value of the same priority, the two
\* Dequeue calls that follow return the value enqueued last first and the
\* value enqueued first last: not the order in which they were enqueued.
C34_NotStable ==
    [][(TieInserted /\ Size(bh) = 1
          /\ At(bh, 0).priority = bhRet'.element.priority
          /\ At(bh, 0).value # bhRet'.element.value) =>
          LET older == At(bh, 0)
              newer == bhRet'.element
              first == PQDequeue(QueueOf(bh'))
              second == PQDequeue(first.queue)
          IN  /\ QueueOf(bh') = PQEnqueue(QueueOf(bh), newer.value, newer.priority)
              /\ first.err = NoError
              /\ second.err = NoError
              /\ first.value = newer.value
              /\ second.value = older.value]_vars

\* "b" was enqueued after "a" with the same priority and is the value the
\* queue gives first
C34_Witness ==
    /\ bhRet.op = "Insert"
    /\ bhRet.element.value = "b"
    /\ PQSize(QueueOf(bh)) = 2
    /\ PQPeek(QueueOf(bh)).value = "b"
    /\ PQDequeue(PQDequeue(QueueOf(bh)).queue).value = "a"
    /\ At(bh, 1).priority = bhRet.element.priority

(***************************************************************************)
(* Properties of the loops of the sifts.                                   *)
(***************************************************************************)
\* floor(log2(n)), and 0 for n = 0
RECURSIVE Log2(_)
Log2(n) == IF n <= 1 THEN 0 ELSE 1 + Log2(n \div 2)

StrictlyDecreasing(seq) == \A k \in 1 .. Len(seq) - 1 : seq[k + 1] < seq[k]

StrictlyIncreasing(seq) == \A k \in 1 .. Len(seq) - 1 : seq[k + 1] > seq[k]

\* C35: for every comparator, a total order or not, Insert and Remove
\* terminate: the index of upHeap strictly decreases from one iteration to
\* the next, the index of downHeap strictly increases and stays below
\* Size() while a swap follows, and neither loop runs more than
\* floor(log2(Size())) + 1 iterations, Size() being that of the heap the
\* loop runs on (and the logarithm of 0 taken as 0).
C35_SiftTermination ==
    [][/\ \A element \in Compared(bh.compare.table) :
            BadInsert(element) =>
                LET run == InsertIterations(bh, element)
                IN  /\ StrictlyDecreasing(run.indexes)
                    /\ \A k \in DOMAIN run.indexes :
                          0 < run.indexes[k] /\ run.indexes[k] < run.size
                    /\ Len(run.indexes) <= Log2(run.size) + 1
       /\ (bhRet' = "Remove" /\ BadRemove) =>
                LET run == RemoveIterations(bh)
                IN  /\ StrictlyIncreasing(run.indexes)
                    /\ \A k \in DOMAIN run.indexes :
                          k > 1 => run.indexes[k] < run.size
                    /\ Len(run.indexes) <= Log2(run.size) + 1]_vars

\* a Remove on a heap of five whose comparator is no order (an element
\* differs from itself): downHeap ran as far as index 3, the last level,
\* which takes the three iterations that the bound allows
C35_Witness ==
    /\ bhRet = "Remove"
    /\ Size(bh) = 4
    /\ bh.compare.table[<<1, 1>>] # 0
    /\ Access(bh, 3) \in touched

(***************************************************************************)
(* Properties of what Insert and Remove keep.                              *)
(***************************************************************************)
\* C36: the elements in the heap, counted with their multiplicities, are
\* those inserted less those returned by Remove: an Insert adds exactly
\* its element and a Remove takes away exactly the element it returns;
\* the swaps of upHeap and downHeap lose, duplicate and alter nothing.
C36_MultisetPreserved ==
    [][/\ TieInserted =>
            BagOf(Elements(bh')) = BagOf(Append(Elements(bh), bhRet'.element))
       /\ TieRemoved =>
            BagOf(Append(Elements(bh'), bhRet'.element)) = BagOf(Elements(bh))]_vars

\* Remove returned an element of which an equal one is still in the heap,
\* and the element it moved to the root went down
C36_Witness ==
    /\ bhRet.op = "Remove"
    /\ Size(bh) = 4
    /\ bhRet.element \in Range(Elements(bh))
    /\ At(bh, 0) # bhRet.last
    /\ Cardinality(Range(Elements(bh))) = 3

\* C37: Insert(element) grows the sequence by exactly one and changes only
\* positions on the path from the new last index up to the root; every
\* element at an index off that path stays at its index.  Insert returns
\* no error.
C37_InsertFrame ==
    [][TieInserted =>
          /\ Size(bh') = Size(bh) + 1
          /\ \A idx \in 0 .. Size(bh) - 1 :
                idx \notin Range(PathUp(Size(bh))) => At(bh', idx) = At(bh, idx)
          /\ \E idx \in Range(PathUp(Size(bh))) : At(bh', idx) = bhRet'.element]_vars

\* the fifth element inserted went up to the root, past two elements of
\* greater priority, beside two positions that are off its path
C37_Witness ==
    /\ bhRet.op = "Insert"
    /\ Size(bh) = 5
    /\ At(bh, 0) = bhRet.element
    /\ At(bh, 1).priority > bhRet.element.priority
    /\ At(bh, 4).priority > bhRet.element.priority
    /\ At(bh, 2) # At(bh, 3)

(***************************************************************************)
(* Properties of the two lists together.                                   *)
(***************************************************************************)
\* the chain from Head() by Next() has no node twice and exactly Size()
\* nodes, Tail() is its last node, and head, tail and size are nil, nil
\* and 0 together
WellFormed(l) ==
    LET chain == Chain(l)
    IN  /\ \A i \in DOMAIN chain, j \in DOMAIN chain : chain[i] = chain[j] => i = j
        /\ Len(chain) = ListSize(l)
        /\ (l.head = Nil) = (ListSize(l) = 0)
        /\ (l.tail = Nil) = (ListSize(l) = 0)
        /\ l.tail # Nil =>
              /\ l.tail = chain[Len(chain)]
              /\ l.mem[l.tail].next = Nil

\* C38: in both lists, after any sequence of Prepend, Append, InsertAt,
\* RemoveFirst, RemoveLast, Remove, RemoveAll, Reverse and Clear calls, the
\* chain from Head() is acyclic and has exactly Size() nodes, Tail() is its
\* last node, whose Next() is nil, and Head() is nil exactly when Tail()
\* is nil exactly when Size() is 0.
C38_ListWellFormed == WellFormed(gl) /\ WellFormed(al)

\* the last of three nodes was removed by RemoveLast: the tail is the node
\* that was before it
C38_Witness ==
    /\ lRet.op = "RemoveLast"
    /\ lRet.before = 3
    /\ ListSize(gl) = 2
    /\ ListSize(al) = 2
    /\ gl.tail # gl.head
    /\ al.mem[al.tail].next = Nil

\* the value of a node, 0 for nil
DataOf(l, node) == IF node = Nil THEN 0 ELSE l.mem[node].data

\* C39: given the same calls with the same arguments, the generic list and
\* the any-typed list hold the same sequence of values, the same Size(),
\* the same values at Head() and Tail(), and InsertAt has returned the
\* same error in both.
C39_ListsEquivalent ==
    /\ Values(gl) = Values(al)
    /\ ListSize(gl) = ListSize(al)
    /\ DataOf(gl, gl.head) = DataOf(al, al.head)
    /\ DataOf(gl, gl.tail) = DataOf(al, al.tail)
    /\ (gl.head = Nil) = (al.head = Nil)
    /\ (gl.tail = Nil) = (al.tail = Nil)
    /\ lRet.gErr = lRet.aErr

\* InsertAt at index Size(), which only the generic list hands to Append,
\* put a value at the end that differs from the one before it
C39_Witness ==
    /\ lRet.op = "InsertAt"
    /\ lRet.gErr = NoError
    /\ lRet.index = lRet.before
    /\ lRet.before = 2
    /\ DataOf(al, al.tail) = lRet.data
    /\ Values(al)[2] # lRet.data

====
